---------------------------- MODULE Spec2Model ----------------------------
(***************************************************************************)
(* Request-governance layer of the Drive/Gmail dashboard:                  *)
(*   - RateLimiter (utils/security.js): sliding-window admission control,  *)
(*     one timestamp array per operation key, three shared instances;      *)
(*   - OAuth CSRF state guard (utils/security.js, utils/googleApi.js,      *)
(*     App.jsx): state token in sessionStorage, verified by the token      *)
(*     client's callback before the App marks the user signed in;          *)
(*   - bulk flows (utils/driveApi.js, utils/gmailApi.js): one run of        *)
(*     organizeFilesByType, deleteOldFiles, deleteFiles, deleteSpamEmails   *)
(*     or deleteOldEmails, a step of the model being the code that runs    *)
(*     between two awaits.                                                 *)
(*                                                                         *)
(* Time is the value of Date.now().  The RateLimiter class is parametric   *)
(* in (maxRequests, timeWindow); the three instances are modelled with     *)
(* small constructor arguments (the ...MaxRequests and ...Window            *)
(* definitions): every instance reaches a full window, and the two short-  *)
(* window instances an expired one, within the time horizon MaxTime.       *)
(***************************************************************************)
EXTENDS Integers, Sequences, FiniteSets, TLC

VARIABLES
    now,        \* Date.now()
    requests,   \* RateLimiter.requests of each instance: key -> array of timestamps
    ret,        \* the call that returned last and its return value
    granted,    \* history: per limiter and key of KeysOf, the times at which isAllowed
                \* returned true
    grantedSinceReset,  \* history: those of them after the limiter's last reset()
    deniedAt,   \* history: per limiter and key, the time isAllowed last returned false
                \* since the limiter's last reset() (-1: never)
    ncalls,     \* history: number of isAllowed and reset calls made
    storage,    \* sessionStorage: the items oauth_state and oauth_state_timestamp
    tokenClient,    \* googleApi.js: whether the token client exists
    inflight,   \* the state parameters of the authorization requests awaiting a response
    loading,    \* App: the loading state
    appError,   \* App: the error state ("none" for null)
    isSignedIn, \* App: the isSignedIn state
    handled,    \* history: the authorization response the callback handled last
    consumed,   \* history: the token verified successfully since the last storeOAuthState
    signInVerify,   \* history: what verifyOAuthState returned for the response that
                    \* signed the user in ("skipped" when it was not called)
    nresponses, \* history: number of authorization responses handled
    nelapses,   \* history: number of Elapse steps taken
    lastStore,  \* history: the last storeOAuthState call: its argument, Date.now() at
                \* the call, and the argument of the call before it
    sent,       \* history: the state parameter of the authorization request sent by
                \* the last step (Null when the step sent none)
    flow,       \* the bulk flow that was called ("none" before the call)
    pc,         \* where the run of the bulk flow stands
    files,      \* the candidates: files / messages of the listing response, or the
                \* fileIds argument of deleteFiles (each candidate: its MIME type)
    idx,        \* sequential flows: index of the item of the for loop;
                \* organizeFilesByType: index of the first item of the batch
    results,    \* the counters deleted / trashed / moved (succeeded) and errors
    outcome,    \* what the call returned or threw
    folders,    \* organizeFilesByType: folders[type], 0 when undefined
    tasks,      \* organizeFilesByType: position of the callback of each item of the batch
    nmutations, \* history: number of create, update, delete and trash calls issued
    ncreates,   \* history: per type, the number of folder creation calls issued
    polled,     \* history: the items that were denied admission and waited
    deniedCounted,  \* history: the items counted as errors because an isAllowed call
                    \* made for them returned false
    calls,      \* history: sequential flows: the items whose remote call was issued,
                \* in the order of the calls
    started,    \* history: Date.now() at each call of a bulk flow that went on to its
                \* listing call or to its loop
    created,    \* history: organizeFilesByType: per type, the folder ids that the
                \* createFolder calls of the run returned
    moves,      \* history: organizeFilesByType: the moveFileToFolder calls of the run,
                \* each the item and the folderId argument (0 for undefined)
    ops,        \* the adapter operations called by the handlers of the components,
                \* which may overlap: for each the operation ("none" before the call),
                \* where it stands, the state of each of its per-item callbacks or
                \* loop iterations, and (history) the isAllowed calls of its entry
                \* check, the remote calls it issued, and whether the check refused
    itemCalls,  \* history: per limiter and key, Date.now() at each per-item remote
                \* call of a polling loop
    fn,         \* the utility function that was called ("none" before the call)
    arg,        \* its argument
    out,        \* what it returned
    attempts    \* App: the runs of loadGoogleApi, one per mount or retry, each with
                \* the 30-second timer set before it: when it started, where it
                \* stands, the value of loading its timer's callback closed over,
                \* where the timer stands, and (history) whether the run had settled
                \* when the timer fired and whether the callback reported a timeout

rlVars == <<requests, ret, granted, grantedSinceReset, deniedAt, ncalls>>

oauthVars == <<storage, tokenClient, inflight, loading, appError, isSignedIn, handled,
               consumed, signInVerify, nresponses, nelapses, lastStore, sent>>

bulkVars == <<flow, pc, files, idx, results, outcome, folders, tasks, nmutations,
              ncreates, polled, deniedCounted, calls, started, created, moves>>

fnVars == <<fn, arg, out>>

adapterVars == <<ops, itemCalls>>

vars == <<now, rlVars, oauthVars, bulkVars, fnVars, attempts, adapterVars>>

\* What a rate limiter call, a step of the sign-in flow, a step of a bulk flow and
\* a call of a utility function leave alone.
notRateLimiter == <<oauthVars, bulkVars, fnVars, attempts, adapterVars>>
notSignIn == <<rlVars, bulkVars, fnVars, attempts, adapterVars>>
notBulk == <<ret, granted, grantedSinceReset, deniedAt, ncalls, oauthVars, fnVars,
             attempts, adapterVars>>
notFn == <<now, rlVars, oauthVars, bulkVars, attempts, adapterVars>>
notBootstrap == <<rlVars, bulkVars, fnVars, adapterVars>>
notAdapter == <<now, ret, granted, grantedSinceReset, deniedAt, ncalls, oauthVars,
                bulkVars, fnVars, attempts>>

---------------------------------------------------------------------------
(* Bounds *)

\* Latest clock value explored.
MaxTime == 2
\* Number of isAllowed and reset calls explored in one behaviour.
MaxCalls == 3
\* Number of authorization responses explored in one behaviour.
MaxResponses == 3
\* Number of clock jumps explored in one behaviour of the sign-in flow.
MaxElapses == 3
\* Longest candidate list that passes the size check of a bulk flow.
MaxItems == 3
\* batchSize of organizeFilesByType (source: 10).
BatchSize == 2
\* Number of bulk flow calls explored in one behaviour.
MaxRuns == 3
\* Constructor arguments of the modelled instances (source: 10/1000, 5/1000, 3/60000).
DriveMaxRequests == 2
GmailMaxRequests == 1
BulkMaxRequests == 2
ShortWindow == 2
BulkWindow == 3
\* Delay of the initialization timeout, in clock ticks (source: 30000 ms).
InitTimeout == 2
\* Number of runs of loadGoogleApi explored in one behaviour, and the latest clock
\* value of the bootstrap.
MaxAttempts == 3
BootHorizon == 5
\* Length the query sanitizers truncate to (source: 1000).
QueryMaxLength == 7
\* Length above which sanitizeFilename truncates (source: 255), and the length it
\* cuts the base name to (source: 250).
FilenameMaxLength == 8
NameMaxLength == FilenameMaxLength - 5
\* Longest string enumerated character by character.
MaxTyped == 4
\* Number of adapter operations called in one behaviour.
MaxCallers == 2

---------------------------------------------------------------------------
(* RateLimiter *)

Limiters == {"drive", "gmail", "bulk"}

\* The keys the call sites of each instance pass to isAllowed (bulkOpLimiter has no
\* call site: one key).  The Map of an instance holds no other key.
CallSiteKeys(l) ==
    CASE l = "drive" -> {"search", "createFolder", "moveFile", "delete", "share",
                         "download"}
      [] l = "gmail" -> {"search", "getEmail", "listLabels", "createLabel",
                         "deleteLabel", "addLabel", "delete", "trash"}
      [] l = "bulk"  -> {"bulk"}

\* The keys under which the polling loops admit their items.
LoopKeys == {"delete", "trash", "getEmail"}

\* The keys each instance is called with by the calls made directly on it.
KeysOf(l) ==
    CASE l = "drive" -> {"search", "delete"}
      [] l = "gmail" -> {"search"}
      [] l = "bulk"  -> {"bulk"}

driveRateLimiter == [maxRequests |-> DriveMaxRequests, timeWindow |-> ShortWindow]
gmailRateLimiter == [maxRequests |-> GmailMaxRequests, timeWindow |-> ShortWindow]
bulkOpLimiter    == [maxRequests |-> BulkMaxRequests,  timeWindow |-> BulkWindow]

Limiter(l) ==
    CASE l = "drive" -> driveRateLimiter
      [] l = "gmail" -> gmailRateLimiter
      [] l = "bulk"  -> bulkOpLimiter

NoRet == [op |-> "none", limiter |-> "none", key |-> "none", value |-> 0]

Max0(x) == IF x > 0 THEN x ELSE 0

\* Variant of RecentRequests: the filter written with <=, keeping a timestamp
\* that is exactly timeWindow old.
RecentRequestsInclusive(requestTimes, t, timeWindow) ==
    SelectSeq(requestTimes, LAMBDA time : t - time <= timeWindow)

\* Variant of RecentRequests: a timestamp expires one time unit early.
RecentRequestsEarlyExpiry(requestTimes, t, timeWindow) ==
    SelectSeq(requestTimes, LAMBDA time : t - time < timeWindow - 1)

\* requestTimes.filter(time => now - time < this.timeWindow)
RecentRequests(requestTimes, t, timeWindow) ==
    SelectSeq(requestTimes, LAMBDA time : t - time < timeWindow)

\* Variant of LimitReached: the comparison written with >.
LimitReachedOffByOne(recentRequests, maxRequests) ==
    Len(recentRequests) > maxRequests

\* Variant of LimitReached: the limit applied one request early.
LimitReachedEarly(recentRequests, maxRequests) ==
    Len(recentRequests) + 1 >= maxRequests

\* recentRequests.length >= this.maxRequests
LimitReached(recentRequests, maxRequests) ==
    Len(recentRequests) >= maxRequests

\* Variant of IsAllowed: the timestamp is pushed and stored before the limit is tested.
IsAllowedRecordsDenied(l, k) ==
    LET recentRequests == RecentRequests(requests[l][k], now, Limiter(l).timeWindow)
        allowed == ~LimitReached(recentRequests, Limiter(l).maxRequests)
    IN  /\ ncalls < MaxCalls
        /\ ncalls' = ncalls + 1
        /\ requests' = [requests EXCEPT ![l][k] = Append(recentRequests, now)]
        /\ ret' = [op |-> "isAllowed", limiter |-> l, key |-> k, value |-> allowed]
        /\ granted' = [granted EXCEPT ![l][k] = IF allowed THEN Append(@, now) ELSE @]
        /\ grantedSinceReset' =
              [grantedSinceReset EXCEPT ![l][k] = IF allowed THEN Append(@, now) ELSE @]
        /\ deniedAt' = [deniedAt EXCEPT ![l][k] = IF allowed THEN @ ELSE now]
        /\ UNCHANGED <<now, notRateLimiter>>

\* Variant of IsAllowed: one timestamp array per instance, shared by all its keys.
IsAllowedSharedArray(l, k) ==
    LET recentRequests == RecentRequests(requests[l][k], now, Limiter(l).timeWindow)
    IN  /\ ncalls < MaxCalls
        /\ ncalls' = ncalls + 1
        /\ IF LimitReached(recentRequests, Limiter(l).maxRequests)
           THEN /\ ret' = [op |-> "isAllowed", limiter |-> l, key |-> k, value |-> FALSE]
                /\ deniedAt' = [deniedAt EXCEPT ![l][k] = now]
                /\ UNCHANGED <<requests, granted, grantedSinceReset>>
           ELSE /\ requests' = [requests EXCEPT ![l] =
                                   [k2 \in CallSiteKeys(l) |->
                                       Append(recentRequests, now)]]
                /\ ret' = [op |-> "isAllowed", limiter |-> l, key |-> k, value |-> TRUE]
                /\ granted' = [granted EXCEPT ![l][k] = Append(@, now)]
                /\ grantedSinceReset' = [grantedSinceReset EXCEPT ![l][k] = Append(@, now)]
                /\ UNCHANGED deniedAt
        /\ UNCHANGED <<now, notRateLimiter>>

\* RateLimiter.isAllowed(key) on instance l.
IsAllowed(l, k) ==
    LET recentRequests == RecentRequests(requests[l][k], now, Limiter(l).timeWindow)
    IN  /\ ncalls < MaxCalls
        /\ ncalls' = ncalls + 1
        /\ IF LimitReached(recentRequests, Limiter(l).maxRequests)
           THEN /\ ret' = [op |-> "isAllowed", limiter |-> l, key |-> k, value |-> FALSE]
                /\ deniedAt' = [deniedAt EXCEPT ![l][k] = now]
                /\ UNCHANGED <<requests, granted, grantedSinceReset>>
           ELSE /\ requests' = [requests EXCEPT ![l][k] = Append(recentRequests, now)]
                /\ ret' = [op |-> "isAllowed", limiter |-> l, key |-> k, value |-> TRUE]
                /\ granted' = [granted EXCEPT ![l][k] = Append(@, now)]
                /\ grantedSinceReset' = [grantedSinceReset EXCEPT ![l][k] = Append(@, now)]
                /\ UNCHANGED deniedAt
        /\ UNCHANGED <<now, notRateLimiter>>

\* Variant of RemainingOf: every stored timestamp is counted, expired or not.
RemainingOfUnfiltered(requestTimes, t, lim) ==
    Max0(lim.maxRequests - Len(requestTimes))

\* The value RateLimiter.getRemaining(key) returns.
RemainingOf(requestTimes, t, lim) ==
    Max0(lim.maxRequests - Len(RecentRequests(requestTimes, t, lim.timeWindow)))

\* RateLimiter.getRemaining(key) on instance l.
GetRemaining(l, k) ==
    /\ ret' = [op |-> "getRemaining", limiter |-> l, key |-> k,
               value |-> RemainingOf(requests[l][k], now, Limiter(l))]
    /\ UNCHANGED <<now, requests, granted, grantedSinceReset, deniedAt, ncalls,
                   notRateLimiter>>

\* Variant of TimeUntilResetOf: the newest timestamp is taken for the oldest.
TimeUntilResetOfNewest(requestTimes, t, lim) ==
    IF Len(requestTimes) = 0
    THEN 0
    ELSE Max0(requestTimes[Len(requestTimes)] + lim.timeWindow - t)

\* Variant of TimeUntilResetOf: the time is one tick short.
TimeUntilResetOfShort(requestTimes, t, lim) ==
    IF Len(requestTimes) = 0
    THEN 0
    ELSE Max0(requestTimes[1] + lim.timeWindow - t - 1)

\* The value RateLimiter.getTimeUntilReset(key) returns.
TimeUntilResetOf(requestTimes, t, lim) ==
    IF Len(requestTimes) = 0
    THEN 0
    ELSE LET oldestRequest == requestTimes[1]
             resetTime == oldestRequest + lim.timeWindow
         IN  Max0(resetTime - t)

\* RateLimiter.getTimeUntilReset(key) on instance l.
GetTimeUntilReset(l, k) ==
    /\ ret' = [op |-> "getTimeUntilReset", limiter |-> l, key |-> k,
               value |-> TimeUntilResetOf(requests[l][k], now, Limiter(l))]
    /\ UNCHANGED <<now, requests, granted, grantedSinceReset, deniedAt, ncalls,
                   notRateLimiter>>

\* RateLimiter.reset() on instance l: this.requests.clear().
Reset(l) ==
    /\ ncalls < MaxCalls
    /\ ncalls' = ncalls + 1
    /\ requests' = [requests EXCEPT ![l] = [k \in CallSiteKeys(l) |-> <<>>]]
    /\ ret' = [op |-> "reset", limiter |-> l, key |-> "none", value |-> 0]
    /\ grantedSinceReset' =
          [grantedSinceReset EXCEPT ![l] = [k \in KeysOf(l) |-> <<>>]]
    /\ deniedAt' = [deniedAt EXCEPT ![l] = [k \in KeysOf(l) |-> -1]]
    /\ UNCHANGED <<now, granted, notRateLimiter>>

\* Date.now() advances between calls (never within one).
Tick ==
    /\ now < MaxTime
    /\ now' = now + 1
    /\ ret' = NoRet
    /\ UNCHANGED <<requests, granted, grantedSinceReset, deniedAt, ncalls,
                   notRateLimiter>>


---------------------------------------------------------------------------
(* OAuth CSRF state guard and sign-in *)

\* 10 * 60 * 1000
OAuthStateExpiry == 600000

\* Values generateStateParameter() can return.
Tokens == {"a3f1", "9c0e"}

\* getItem() of an item that is not stored; a response field that is absent.
Null == "null"

\* Date.now() when the page is loaded: any value above OAuthStateExpiry, as every
\* clock reading of a browser is.
StartTime == OAuthStateExpiry + 1

\* The clock jumps between two events of the sign-in flow.
Delays == {1, OAuthStateExpiry - 1, OAuthStateExpiry}

RECURSIVE NumberToString(_)
\* Date.now().toString(): the decimal digits.
NumberToString(n) ==
    IF n < 10 THEN <<n>> ELSE Append(NumberToString(n \div 10), n % 10)

RECURSIVE ParseInt(_)
\* parseInt(digits, 10)
ParseInt(digits) ==
    IF Len(digits) = 0
    THEN 0
    ELSE 10 * ParseInt(SubSeq(digits, 1, Len(digits) - 1)) + digits[Len(digits)]

NoResponse == [state |-> Null, error |-> FALSE, verify |-> "none", outcome |-> "none"]

EmptyStorage == [oauth_state |-> Null, oauth_state_timestamp |-> Null]

\* Variant of StoreOAuthState: a pending token is not overwritten.
StoreOAuthStateKeepsPending(state) ==
    IF storage.oauth_state # Null
    THEN storage
    ELSE [oauth_state |-> state, oauth_state_timestamp |-> NumberToString(now)]

\* storeOAuthState(state): both items are overwritten.
StoreOAuthState(state) ==
    [oauth_state |-> state, oauth_state_timestamp |-> NumberToString(now)]

\* Variant of IsExpired: the comparison written with >=.
IsExpiredInclusive ==
    LET timestamp == ParseInt(IF storage.oauth_state_timestamp = Null
                              THEN <<0>>
                              ELSE storage.oauth_state_timestamp)
    IN  now - timestamp >= OAuthStateExpiry

\* verifyOAuthState: Date.now() - timestamp > 10 * 60 * 1000
IsExpired ==
    LET timestamp == ParseInt(IF storage.oauth_state_timestamp = Null
                              THEN <<0>>
                              ELSE storage.oauth_state_timestamp)
    IN  now - timestamp > OAuthStateExpiry

\* Variant of VerifyOAuthState: any state is accepted while a token is pending.
VerifyOAuthStateAnyPending(state) ==
    IF IsExpired
    THEN FALSE
    ELSE storage.oauth_state # Null

\* The value verifyOAuthState(state) returns.
VerifyOAuthState(state) ==
    IF IsExpired
    THEN FALSE
    ELSE IF state # storage.oauth_state
         THEN FALSE
         ELSE TRUE

\* Variant of StorageAfterVerify: the items are not removed after a verification.
StorageAfterVerifyKept(state) ==
    storage

\* Variant of StorageAfterVerify: the items are removed whatever the verification
\* returns.
StorageAfterVerifyCleared(state) ==
    EmptyStorage

\* Variant of StorageAfterVerify: only the oauth_state item is removed.
StorageAfterVerifyTokenOnly(state) ==
    IF VerifyOAuthState(state)
    THEN [oauth_state |-> Null, oauth_state_timestamp |-> storage.oauth_state_timestamp]
    ELSE storage

\* sessionStorage after verifyOAuthState(state): both items are removed when it
\* returns true, and nothing is touched otherwise.
StorageAfterVerify(state) ==
    IF VerifyOAuthState(state) THEN EmptyStorage ELSE storage

\* initTokenClient(callback), step 5 of loadGoogleApi, and the end of loadGoogleApi.
InitTokenClient ==
    /\ loading
    /\ \E state \in Tokens :
          /\ storage' = StoreOAuthState(state)
          /\ lastStore' = [state |-> state, at |-> now, prev |-> lastStore.state]
    /\ tokenClient' = TRUE
    /\ loading' = FALSE
    /\ consumed' = Null
    /\ handled' = NoResponse
    /\ sent' = Null
    /\ UNCHANGED <<now, inflight, appError, isSignedIn, signInVerify, nresponses,
                   nelapses, notSignIn>>

\* Variant of RequestAccessToken: the generated state is attached to the request
\* but not stored.
RequestAccessTokenWithoutStore ==
    /\ ~loading /\ appError = "none" /\ ~isSignedIn
    /\ IF tokenClient
       THEN \E state \in Tokens :
              /\ inflight' = inflight \cup {state}
              /\ sent' = state
       ELSE /\ sent' = Null
            /\ UNCHANGED inflight
    /\ handled' = NoResponse
    /\ UNCHANGED <<now, storage, consumed, lastStore, tokenClient, loading, appError,
                   isSignedIn, signInVerify, nresponses, nelapses, notSignIn>>

\* handleSignIn -> requestAccessToken(): shown on the sign-in screen.
RequestAccessToken ==
    /\ ~loading /\ appError = "none" /\ ~isSignedIn
    /\ IF tokenClient
       THEN \E state \in Tokens :
              /\ storage' = StoreOAuthState(state)
              /\ lastStore' = [state |-> state, at |-> now, prev |-> lastStore.state]
              /\ inflight' = inflight \cup {state}
              /\ sent' = state
              /\ consumed' = Null
       ELSE /\ sent' = Null
            /\ UNCHANGED <<storage, inflight, consumed, lastStore>>
    /\ handled' = NoResponse
    /\ UNCHANGED <<now, tokenClient, loading, appError, isSignedIn, signInVerify,
                   nresponses, nelapses, notSignIn>>

\* The token client's callback (initTokenClient) followed by the App's auth callback,
\* for a response carrying the state field st (Null: absent or empty) and, when
\* err, an error field.
AuthResponse(st, err) ==
    /\ tokenClient
    /\ nresponses < MaxResponses
    /\ nresponses' = nresponses + 1
    /\ inflight' = inflight \ {st}
    /\ IF st # Null /\ ~VerifyOAuthState(st)
       THEN \* callback({error: 'Security verification failed. Please try again.'})
            /\ storage' = StorageAfterVerify(st)
            /\ appError' = "auth"
            /\ isSignedIn' = FALSE
            /\ handled' = [state |-> st, error |-> err, verify |-> "false",
                           outcome |-> "securityError"]
            /\ UNCHANGED <<consumed, signInVerify>>
       ELSE /\ storage' = IF st # Null THEN StorageAfterVerify(st) ELSE storage
            /\ consumed' = IF st # Null THEN st ELSE consumed
            /\ IF err
               THEN /\ appError' = "auth"
                    /\ isSignedIn' = FALSE
                    /\ handled' = [state |-> st, error |-> err,
                                   verify |-> IF st # Null THEN "true" ELSE "skipped",
                                   outcome |-> "authError"]
                    /\ UNCHANGED signInVerify
               ELSE /\ isSignedIn' = TRUE
                    /\ handled' = [state |-> st, error |-> err,
                                   verify |-> IF st # Null THEN "true" ELSE "skipped",
                                   outcome |-> "signedIn"]
                    /\ signInVerify' = IF st # Null THEN "true" ELSE "skipped"
                    /\ UNCHANGED appError
    /\ sent' = Null
    /\ UNCHANGED <<now, tokenClient, loading, nelapses, lastStore, notSignIn>>

\* handleSignOut: shown in the main layout.
HandleSignOut ==
    /\ ~loading /\ appError = "none" /\ isSignedIn
    /\ isSignedIn' = FALSE
    /\ handled' = NoResponse
    /\ sent' = Null
    /\ UNCHANGED <<now, storage, tokenClient, inflight, loading, appError, consumed,
                   signInVerify, nresponses, nelapses, lastStore, notSignIn>>

\* handleRetry: shown on the error screen; loadGoogleApi runs again.
HandleRetry ==
    /\ ~loading /\ appError # "none"
    /\ loading' = TRUE
    /\ appError' = "none"
    /\ handled' = NoResponse
    /\ sent' = Null
    /\ UNCHANGED <<now, storage, tokenClient, inflight, isSignedIn, consumed,
                   signInVerify, nresponses, nelapses, lastStore, notSignIn>>

\* Date.now() advances between two events of the sign-in flow.
Elapse ==
    /\ nelapses < MaxElapses
    /\ nelapses' = nelapses + 1
    /\ \E d \in Delays : now' = now + d
    /\ handled' = NoResponse
    /\ sent' = Null
    /\ UNCHANGED <<storage, tokenClient, inflight, loading, appError, isSignedIn,
                   consumed, signInVerify, nresponses, lastStore, notSignIn>>

---------------------------------------------------------------------------
(* Bootstrap of the App *)

\* A run of loadGoogleApi that starts now, with the timer set before it; closure is
\* the value of loading in the render whose function set the timer.
NewAttempt(closure) ==
    [start |-> now, status |-> "running", closure |-> closure, timer |-> "armed",
     settledWhenFired |-> FALSE, reported |-> FALSE]

\* timeoutRef.current: the timer set last.
TimeoutRef == Len(attempts)

\* clearTimeout(timeoutRef.current)
ClearTimeout(a) ==
    [a EXCEPT ![TimeoutRef].timer = IF @ = "armed" THEN "cleared" ELSE @]

\* The attempts after the catch block of loadGoogleApi: only the interval timer is
\* cleared.
AfterFailure(i) ==
    [attempts EXCEPT ![i].status = "failed"]

\* loadGoogleApi, run i, from step 5 to its end: the token client is initialised,
\* the timeout is cleared and the loading screen is left.
LoadGoogleApiSucceeds(i) ==
    /\ i \in DOMAIN attempts /\ attempts[i].status = "running"
    /\ \E state \in Tokens :
          /\ storage' = StoreOAuthState(state)
          /\ lastStore' = [state |-> state, at |-> now, prev |-> lastStore.state]
    /\ tokenClient' = TRUE
    /\ consumed' = Null
    /\ handled' = NoResponse
    /\ sent' = Null
    /\ attempts' = ClearTimeout([attempts EXCEPT ![i].status = "succeeded"])
    /\ loading' = FALSE
    /\ UNCHANGED <<now, inflight, appError, isSignedIn, signInVerify, nresponses,
                   nelapses, notBootstrap>>

\* loadGoogleApi, run i: one of its steps throws or rejects, and the catch block
\* shows the initialization error.
LoadGoogleApiFails(i) ==
    /\ i \in DOMAIN attempts /\ attempts[i].status = "running"
    /\ attempts' = AfterFailure(i)
    /\ appError' = "initialization"
    /\ loading' = FALSE
    /\ handled' = NoResponse
    /\ sent' = Null
    /\ UNCHANGED <<now, storage, tokenClient, inflight, isSignedIn, consumed,
                   signInVerify, nresponses, nelapses, lastStore, notBootstrap>>

\* The callback of the timer set before run i, InitTimeout after it was set.
InitTimeoutFires(i) ==
    /\ i \in DOMAIN attempts /\ attempts[i].timer = "armed"
    /\ now >= attempts[i].start + InitTimeout
    /\ attempts' = [attempts EXCEPT ![i].timer = "fired",
                                    ![i].settledWhenFired = attempts[i].status # "running",
                                    ![i].reported = attempts[i].closure]
    /\ IF attempts[i].closure
       THEN appError' = "timeout" /\ loading' = FALSE
       ELSE UNCHANGED <<appError, loading>>
    /\ handled' = NoResponse
    /\ sent' = Null
    /\ UNCHANGED <<now, storage, tokenClient, inflight, isSignedIn, consumed,
                   signInVerify, nresponses, nelapses, lastStore, notBootstrap>>

\* handleRetry, with its timer: it is offered by the error screen, which is rendered
\* with loading false, and that is the value its timer's callback closes over.
HandleRetryClick ==
    /\ ~loading /\ appError # "none"
    /\ Len(attempts) < MaxAttempts
    /\ loading' = TRUE
    /\ appError' = "none"
    /\ attempts' = Append(attempts, NewAttempt(loading))
    /\ handled' = NoResponse
    /\ sent' = Null
    /\ UNCHANGED <<now, storage, tokenClient, inflight, isSignedIn, consumed,
                   signInVerify, nresponses, nelapses, lastStore, notBootstrap>>

\* The clock advances by one tick; a timer that is due fires first.
TimePasses ==
    /\ now < BootHorizon
    /\ \A i \in DOMAIN attempts :
           attempts[i].timer = "armed" => now < attempts[i].start + InitTimeout
    /\ now' = now + 1
    /\ UNCHANGED <<oauthVars, attempts, notBootstrap>>

---------------------------------------------------------------------------
(* Error translation *)

\* An Error object.  status and code are given as the property key the value
\* converts to ("" when the field is absent or falsy: 404 and '404' are both "404");
\* message is the text as its words (a number interpolated into the text is a word
\* of its own).
NewError(message) == [status |-> "", code |-> "", message |-> message]

\* statusMessages of getUserFriendlyError: the own properties of the object literal.
statusMessages ==
    [status \in {"400", "401", "403", "404", "409", "429", "500", "503"} |->
        CASE status = "400" -> <<"Invalid", "request.", "Please", "check", "your",
                                 "input", "and", "try", "again.">>
          [] status = "401" -> <<"Your", "session", "has", "expired.", "Please",
                                 "sign", "in", "again.">>
          [] status = "403" -> <<"You", "don't", "have", "permission", "to",
                                 "perform", "this", "action.">>
          [] status = "404" -> <<"The", "requested", "item", "was", "not", "found.">>
          [] status = "409" -> <<"This", "operation", "conflicts", "with", "the",
                                 "current", "state.", "Please", "refresh", "and",
                                 "try", "again.">>
          [] status = "429" -> <<"Too", "many", "requests.", "Please", "wait", "a",
                                 "moment", "and", "try", "again.">>
          [] status = "500" -> <<"Google", "services", "are", "experiencing",
                                 "issues.", "Please", "try", "again", "later.">>
          [] status = "503" -> <<"Service", "temporarily", "unavailable.", "Please",
                                 "try", "again", "in", "a", "few", "moments.">>]

\* What the object literal inherits from Object.prototype, as a template literal
\* renders it (three of the inherited properties).
inheritedMessages ==
    [status \in {"constructor", "toString", "__proto__"} |->
        CASE status = "constructor" -> <<"function", "Object()", "{", "[native",
                                         "code]", "}">>
          [] status = "toString"    -> <<"function", "toString()", "{", "[native",
                                         "code]", "}">>
          [] status = "__proto__"   -> <<"[object", "Object]">>]

\* statusMessages[status]: an own property, else an inherited one, else undefined
\* (the empty text).
StatusMessage(status) ==
    IF status \in DOMAIN statusMessages THEN statusMessages[status]
    ELSE IF status \in DOMAIN inheritedMessages THEN inheritedMessages[status]
    ELSE <<>>

\* String.prototype.toLowerCase on a word.
ToLowerCase(word) ==
    CASE word = "Network"    -> "network"
      [] word = "Fetch"      -> "fetch"
      [] word = "Quota"      -> "quota"
      [] word = "Timeout"    -> "timeout"
      [] word = "Permission" -> "permission"
      [] OTHER               -> word

\* message.toLowerCase().includes(keyword), for a keyword that is a word of the text.
Includes(message, keyword) ==
    \E i \in DOMAIN message : ToLowerCase(message[i]) = keyword

\* A variant that inspects the message before the table.
GetUserFriendlyErrorMessageFirst(error, context) ==
    LET status == IF error.status # "" THEN error.status ELSE error.code
    IN  IF error.message # <<>>
               /\ (Includes(error.message, "network") \/ Includes(error.message, "fetch"))
        THEN context \o <<"failed:", "Network", "error.", "Please", "check", "your",
                          "internet", "connection.">>
        ELSE IF error.message # <<>> /\ Includes(error.message, "quota")
        THEN context \o <<"failed:", "API", "quota", "exceeded.", "Please", "try",
                          "again", "later.">>
        ELSE IF error.message # <<>> /\ Includes(error.message, "timeout")
        THEN context \o <<"failed:", "Request", "timed", "out.", "Please", "try",
                          "again.">>
        ELSE IF error.message # <<>> /\ Includes(error.message, "permission")
        THEN context \o <<"failed:", "Permission", "denied.", "Please", "check",
                          "your", "access", "rights.">>
        ELSE IF status # "" /\ StatusMessage(status) # <<>>
        THEN context \o <<"failed:">> \o StatusMessage(status)
        ELSE context \o <<"failed:", "An", "unexpected", "error", "occurred.",
                          "Please", "try", "again.">>

\* getUserFriendlyError(error, context)
GetUserFriendlyError(error, context) ==
    LET status == IF error.status # "" THEN error.status ELSE error.code
    IN  IF status # "" /\ StatusMessage(status) # <<>>
        THEN context \o <<"failed:">> \o StatusMessage(status)
        ELSE IF error.message # <<>>
                  /\ (Includes(error.message, "network") \/ Includes(error.message, "fetch"))
        THEN context \o <<"failed:", "Network", "error.", "Please", "check", "your",
                          "internet", "connection.">>
        ELSE IF error.message # <<>> /\ Includes(error.message, "quota")
        THEN context \o <<"failed:", "API", "quota", "exceeded.", "Please", "try",
                          "again", "later.">>
        ELSE IF error.message # <<>> /\ Includes(error.message, "timeout")
        THEN context \o <<"failed:", "Request", "timed", "out.", "Please", "try",
                          "again.">>
        ELSE IF error.message # <<>> /\ Includes(error.message, "permission")
        THEN context \o <<"failed:", "Permission", "denied.", "Please", "check",
                          "your", "access", "rights.">>
        ELSE context \o <<"failed:", "An", "unexpected", "error", "occurred.",
                          "Please", "try", "again.">>

---------------------------------------------------------------------------
(* Input sanitizers *)

\* A string is the sequence of its characters.

\* The characters \s matches (three of them).
Whitespace == {" ", "\t", "\n"}

UpperCase == <<"A", "B", "C", "D", "E", "F", "G", "H", "I", "J", "K", "L", "M",
               "N", "O", "P", "Q", "R", "S", "T", "U", "V", "W", "X", "Y", "Z">>
LowerCase == <<"a", "b", "c", "d", "e", "f", "g", "h", "i", "j", "k", "l", "m",
               "n", "o", "p", "q", "r", "s", "t", "u", "v", "w", "x", "y", "z">>
Digits == {"0", "1", "2", "3", "4", "5", "6", "7", "8", "9"}

Range(s) == {s[i] : i \in DOMAIN s}

\* String.prototype.toLowerCase
LowerChar(c) ==
    IF \E i \in DOMAIN UpperCase : UpperCase[i] = c
    THEN LowerCase[CHOOSE i \in DOMAIN UpperCase : UpperCase[i] = c]
    ELSE c

Lower(s) == [i \in DOMAIN s |-> LowerChar(s[i])]

\* s without its first k characters.
Drop(s, k) == SubSeq(s, k + 1, Len(s))

\* String.prototype.substring(start, end): both clamped to 0..length.
Clamp(n, len) == IF n < 0 THEN 0 ELSE IF n > len THEN len ELSE n

Substring(s, start, end) ==
    LET a == Clamp(start, Len(s))
        b == Clamp(end, Len(s))
    IN  IF a <= b THEN SubSeq(s, a + 1, b) ELSE SubSeq(s, b + 1, a)

\* String.prototype.trim
Trim(s) ==
    LET kept == {i \in DOMAIN s : s[i] \notin Whitespace}
    IN  IF kept = {} THEN <<>>
        ELSE SubSeq(s, CHOOSE i \in kept : \A j \in kept : i <= j,
                       CHOOSE i \in kept : \A j \in kept : i >= j)

StartsWith(s, prefix) ==
    Len(prefix) <= Len(s) /\ SubSeq(s, 1, Len(prefix)) = prefix

EndsWith(s, suffix) ==
    Len(suffix) <= Len(s) /\ SubSeq(s, Len(s) - Len(suffix) + 1, Len(s)) = suffix

\* s.replace(/[...]/g, ''): s without the characters of a class.
Without(s, class) == SelectSeq(s, LAMBDA c : c \notin class)

\* s.replace(/'/g, "\\'")
RECURSIVE EscapeQuotes(_)
EscapeQuotes(s) ==
    IF s = <<>> THEN <<>>
    ELSE (IF Head(s) = "'" THEN <<"\\", "'">> ELSE <<Head(s)>>) \o EscapeQuotes(Tail(s))

\* dangerousPatterns of sanitizeDriveQuery.  A pattern is its leading literal,
\* whether [\s]* follows it, the literal after that, and the i flag.
dangerousPatterns ==
    <<[head |-> <<"-", "-">>, gap |-> FALSE, tail |-> <<>>, ignoreCase |-> FALSE],
      [head |-> <<"/", "*">>, gap |-> FALSE, tail |-> <<>>, ignoreCase |-> FALSE],
      [head |-> <<"*", "/">>, gap |-> FALSE, tail |-> <<>>, ignoreCase |-> FALSE],
      [head |-> <<";">>, gap |-> TRUE, tail |-> <<"d", "r", "o", "p">>,
       ignoreCase |-> TRUE],
      [head |-> <<";">>, gap |-> TRUE, tail |-> <<"d", "e", "l", "e", "t", "e">>,
       ignoreCase |-> TRUE]>>

\* Number of leading whitespace characters of s.
RECURSIVE LeadingSpaces(_)
LeadingSpaces(s) ==
    IF s # <<>> /\ Head(s) \in Whitespace THEN 1 + LeadingSpaces(Tail(s)) ELSE 0

\* Length of the match of a pattern at the start of s, 0 when it does not match.
MatchLength(s, pattern) ==
    IF ~StartsWith(s, pattern.head) THEN 0
    ELSE LET rest == Drop(s, Len(pattern.head))
             k == IF pattern.gap THEN LeadingSpaces(rest) ELSE 0
             after == IF pattern.ignoreCase THEN Lower(Drop(rest, k)) ELSE Drop(rest, k)
         IN  IF StartsWith(after, pattern.tail)
             THEN Len(pattern.head) + k + Len(pattern.tail)
             ELSE 0

\* s.replace(pattern, '') with the g flag: one scan from left to right, the scan
\* resuming after each match.
RECURSIVE Replace(_, _)
Replace(s, pattern) ==
    IF s = <<>> THEN <<>>
    ELSE LET k == MatchLength(s, pattern)
         IN  IF k > 0 THEN Replace(Drop(s, k), pattern)
             ELSE <<Head(s)>> \o Replace(Tail(s), pattern)

\* dangerousPatterns.forEach(pattern => { sanitized = sanitized.replace(pattern, '') })
RECURSIVE ForEachPattern(_, _)
ForEachPattern(s, patterns) ==
    IF patterns = <<>> THEN s
    ELSE ForEachPattern(Replace(s, Head(patterns)), Tail(patterns))

\* sanitizeDriveQuery(query), for a string argument.
SanitizeDriveQuery(query) ==
    IF query = <<>> THEN <<>>
    ELSE LET trimmed == Trim(query)
             limited == IF Len(trimmed) > QueryMaxLength
                        THEN Substring(trimmed, 0, QueryMaxLength)
                        ELSE trimmed
         IN  ForEachPattern(EscapeQuotes(limited), dangerousPatterns)

GMAIL_VALID_OPERATORS ==
    {<<"f", "r", "o", "m", ":">>,
     <<"t", "o", ":">>,
     <<"c", "c", ":">>,
     <<"b", "c", "c", ":">>,
     <<"s", "u", "b", "j", "e", "c", "t", ":">>,
     <<"l", "a", "b", "e", "l", ":">>,
     <<"h", "a", "s", ":">>,
     <<"i", "s", ":">>,
     <<"i", "n", ":">>,
     <<"b", "e", "f", "o", "r", "e", ":">>,
     <<"a", "f", "t", "e", "r", ":">>,
     <<"o", "l", "d", "e", "r", ":">>,
     <<"n", "e", "w", "e", "r", ":">>,
     <<"o", "l", "d", "e", "r", "_", "t", "h", "a", "n", ":">>,
     <<"n", "e", "w", "e", "r", "_", "t", "h", "a", "n", ":">>,
     <<"d", "e", "l", "i", "v", "e", "r", "e", "d", "t", "o", ":">>,
     <<"c", "a", "t", "e", "g", "o", "r", "y", ":">>,
     <<"s", "i", "z", "e", ":">>,
     <<"l", "a", "r", "g", "e", "r", ":">>,
     <<"s", "m", "a", "l", "l", "e", "r", ":">>,
     <<"f", "i", "l", "e", "n", "a", "m", "e", ":">>,
     <<"l", "i", "s", "t", ":">>,
     <<"r", "f", "c", "8", "2", "2", "m", "s", "g", "i", "d", ":">>}

\* Length of the match of one alternative of (?:[^\s"]+|"[^"]*") at the start of s,
\* 0 when neither matches.
RECURSIVE PlainRun(_)
PlainRun(s) ==
    IF s # <<>> /\ Head(s) \notin Whitespace \cup {"\""} THEN 1 + PlainRun(Tail(s)) ELSE 0

Alternative(s) ==
    IF s = <<>> THEN 0
    ELSE IF Head(s) \notin Whitespace \cup {"\""} THEN PlainRun(s)
    ELSE IF Head(s) = "\"" /\ \E j \in 2..Len(s) : s[j] = "\""
    THEN CHOOSE j \in 2..Len(s) : s[j] = "\"" /\ \A i \in 2..(j - 1) : s[i] # "\""
    ELSE 0

\* Length of the match of (?:[^\s"]+|"[^"]*")+ at the start of s.
RECURSIVE TokenLength(_)
TokenLength(s) ==
    LET k == Alternative(s)
    IN  IF k = 0 THEN 0 ELSE k + TokenLength(Drop(s, k))

\* sanitized.match(/(?:[^\s"]+|"[^"]*")+/g) || []
RECURSIVE Match(_)
Match(s) ==
    IF s = <<>> THEN <<>>
    ELSE LET k == TokenLength(s)
         IN  IF k = 0 THEN Match(Tail(s))
             ELSE <<SubSeq(s, 1, k)>> \o Match(Drop(s, k))

\* The callback of tokens.filter
Validated(token) ==
    LET lowerToken == Lower(token)
    IN  \/ lowerToken \in {<<"a", "n", "d">>, <<"o", "r">>, <<"n", "o", "t">>, <<"-">>}
        \/ StartsWith(token, <<"\"">>) /\ EndsWith(token, <<"\"">>)
        \/ \E op \in GMAIL_VALID_OPERATORS : StartsWith(lowerToken, op)
        \/ /\ token # <<>>
           /\ Range(token) \subseteq
                  Range(UpperCase) \cup Range(LowerCase) \cup Digits \cup {"@", ".", "_", "-"}

\* Array.prototype.join(separator)
RECURSIVE Join(_, _)
Join(tokens, separator) ==
    IF tokens = <<>> THEN <<>>
    ELSE IF Len(tokens) = 1 THEN Head(tokens)
    ELSE Head(tokens) \o separator \o Join(Tail(tokens), separator)

\* A variant without the length limit.
SanitizeGmailQueryUnlimited(query) ==
    IF query = <<>> THEN <<>>
    ELSE LET trimmed == Trim(query)
             cleaned == Without(trimmed, {"<", ">", "{", "}", "\\"})
         IN  Join(SelectSeq(Match(cleaned), Validated), <<" ">>)

\* sanitizeGmailQuery(query), for a string argument.
SanitizeGmailQuery(query) ==
    IF query = <<>> THEN <<>>
    ELSE LET trimmed == Trim(query)
             limited == IF Len(trimmed) > QueryMaxLength
                        THEN Substring(trimmed, 0, QueryMaxLength)
                        ELSE trimmed
             cleaned == Without(limited, {"<", ">", "{", "}", "\\"})
         IN  Join(SelectSeq(Match(cleaned), Validated), <<" ">>)

\* String.prototype.lastIndexOf(c): the index from 0, -1 when c does not occur.
LastIndexOf(s, c) ==
    LET at == {i \in DOMAIN s : s[i] = c}
    IN  IF at = {} THEN -1 ELSE (CHOOSE i \in at : \A j \in at : i >= j) - 1

\* The fallback name of sanitizeFilename.
download == <<"d", "o", "w", "n", "l", "o", "a", "d">>

\* The characters /[<>:"|?*\x00-\x1f]/ matches (of the control characters, two).
DangerousCharacters == {"<", ">", ":", "\"", "|", "?", "*", "\t", "\n"}

\* sanitizeFilename(filename), for a string argument.
SanitizeFilename(filename) ==
    IF filename = <<>> THEN download
    ELSE LET stripped == Without(filename, {"/", "\\"})
             cleaned == Without(stripped, DangerousCharacters)
             \* sanitized.split('.').pop(): what follows the last dot, the whole
             \* string when it has none
             extension == Drop(cleaned, LastIndexOf(cleaned, ".") + 1)
             nameWithoutExt == Substring(cleaned, 0, LastIndexOf(cleaned, "."))
             sanitized == IF Len(cleaned) > FilenameMaxLength
                          THEN Substring(nameWithoutExt, 0, NameMaxLength)
                                   \o <<".">> \o extension
                          ELSE cleaned
         IN  IF sanitized = <<>> THEN download ELSE sanitized

\* The value of a decimal digit.
DigitValue(c) == CHOOSE n \in 0..9 : ToString(n) = c

\* The number the leading decimal digits of s denote, after the digits that gave acc.
RECURSIVE DigitsValue(_, _)
DigitsValue(s, acc) ==
    IF s = <<>> \/ Head(s) \notin Digits THEN acc
    ELSE DigitsValue(Tail(s), acc * 10 + DigitValue(Head(s)))

\* parseInt(value, 10) of a string: leading whitespace is skipped, a sign is read,
\* then the longest run of digits; NaN when there is no digit.
NaN == [isNaN |-> TRUE, num |-> 0]

ParseInteger(value) ==
    LET text == Drop(value, LeadingSpaces(value))
        signed == text # <<>> /\ Head(text) \in {"+", "-"}
        digits == IF signed THEN Tail(text) ELSE text
    IN  IF digits = <<>> \/ Head(digits) \notin Digits THEN NaN
        ELSE [isNaN |-> FALSE,
              num |-> IF signed /\ Head(text) = "-"
                      THEN 0 - DigitsValue(digits, 0)
                      ELSE DigitsValue(digits, 0)]

\* A variant without the upper bound.
ValidateNumericInputNoMax(value, min, max, defaultValue) ==
    LET parsed == ParseInteger(value)
    IN  IF parsed.isNaN THEN defaultValue
        ELSE IF parsed.num < min THEN min
        ELSE parsed.num

\* validateNumericInput(value, min, max, defaultValue), for a string value.
ValidateNumericInput(value, min, max, defaultValue) ==
    LET parsed == ParseInteger(value)
    IN  IF parsed.isNaN THEN defaultValue
        ELSE IF parsed.num < min THEN min
        ELSE IF parsed.num > max THEN max
        ELSE parsed.num

---------------------------------------------------------------------------
(* Bulk flows *)

Flows == {"organizeFilesByType", "deleteOldFiles", "deleteFiles",
          "deleteSpamEmails", "deleteOldEmails"}

\* The flows whose for loop awaits each item before the next.
SequentialFlows == Flows \ {"organizeFilesByType"}

\* The limiter instance and the key of the per-item isAllowed call of a sequential flow.
FlowLimiter(f) ==
    IF f \in {"deleteSpamEmails", "deleteOldEmails"} THEN "gmail" ELSE "drive"

FlowKey(f) ==
    IF f = "deleteOldEmails" THEN "trash" ELSE "delete"

\* The context label the flow's catch passes to getUserFriendlyError.
FlowContext(f) ==
    CASE f = "organizeFilesByType" -> <<"File", "organization">>
      [] f = "deleteOldFiles"      -> <<"File", "deletion">>
      [] f = "deleteSpamEmails"    -> <<"Spam", "deletion">>
      [] f = "deleteOldEmails"     -> <<"Email", "deletion">>

\* The largest candidate count the flow's safety check lets pass (maxFiles = 1000
\* is the default argument of organizeFilesByType).
FlowCap(f) ==
    IF f = "deleteFiles" THEN 100 ELSE 1000

\* Variant of TooMany: the comparison written with a limit ten times as large.
TooManyTenfold(f, n) ==
    n > 10 * FlowCap(f)

\* The safety check: files.length > 1000
TooMany(f, n) ==
    n > FlowCap(f)

\* The message of the Error the safety check throws.
TooManyMessage(f, n) ==
    CASE f = "organizeFilesByType" ->
            <<"Too", "many", "files", "(", ToString(n), ").", "Maximum", "is",
              ToString(FlowCap(f)), "per", "operation.", "Please", "organize", "in",
              "smaller", "batches.">>
      [] f = "deleteOldFiles" ->
            <<"Too", "many", "files", "to", "delete", "(", ToString(n), ").",
              "Please", "delete", "in", "smaller", "batches.">>
      [] f = "deleteFiles" ->
            <<"Too", "many", "files", "to", "delete", "at", "once.", "Maximum",
              "is", "100.">>
      [] f = "deleteSpamEmails" ->
            <<"Too", "many", "spam", "emails", "(", ToString(n), ").", "Please",
              "delete", "in", "smaller", "batches.">>
      [] f = "deleteOldEmails" ->
            <<"Too", "many", "emails", "(", ToString(n), ").", "Please", "trash",
              "in", "smaller", "batches.">>

\* Arguments daysOld of deleteOldFiles and deleteOldEmails.
DaysOld == {0, 365, 3651}

\* Errors a listing call is rejected with.
ListErrors ==
    {[status |-> "403", code |-> "", message |-> <<"Forbidden">>],
     [status |-> "", code |-> "", message |-> <<"Network", "request", "failed">>]}

\* MIME_TYPES
MIME_TYPES ==
    [type \in {"documents", "spreadsheets", "images", "videos"} |->
        CASE type = "documents" ->
                {"application/vnd.google-apps.document", "application/pdf",
                 "application/msword",
                 "application/vnd.openxmlformats-officedocument.wordprocessingml.document"}
          [] type = "spreadsheets" ->
                {"application/vnd.google-apps.spreadsheet", "application/vnd.ms-excel",
                 "application/vnd.openxmlformats-officedocument.spreadsheetml.sheet"}
          [] type = "images" -> {"image/jpeg", "image/png", "image/gif"}
          [] type = "videos" -> {"video/mp4", "video/x-msvideo"}]

\* Object.entries(MIME_TYPES): the types in insertion order.
Types == <<"documents", "spreadsheets", "images", "videos">>

\* The type of the first entry whose list includes the MIME type ("none": no entry).
TypeOf(mimeType) ==
    IF \E i \in DOMAIN Types : mimeType \in MIME_TYPES[Types[i]]
    THEN Types[CHOOSE i \in DOMAIN Types :
                  /\ mimeType \in MIME_TYPES[Types[i]]
                  /\ \A j \in 1..(i - 1) : mimeType \notin MIME_TYPES[Types[j]]]
    ELSE "none"

\* MIME types of the files of a listing; the items of the other listings carry none.
MimeSamples == {"application/pdf", "image/png", "text/plain"}

Item == "item"

\* The candidate lists explored: every list of at most MaxItems items, and one list
\* that is one item longer than the flow's safety check allows.  The code treats
\* the files of two types alike, so of two lists that differ by exchanging the PDF
\* and the PNG files the one whose first such file is a PDF is explored.
Listings(f) ==
    LET elems == IF f = "organizeFilesByType" THEN MimeSamples ELSE {Item}
    IN  {list \in UNION {[1..n -> elems] : n \in 0..MaxItems} :
            \A i \in DOMAIN list :
                list[i] = "image/png" =>
                    \E j \in 1..(i - 1) : list[j] = "application/pdf"}
          \cup {[i \in 1..(FlowCap(f) + 1) |-> CHOOSE e \in elems : TRUE]}

NoOutcome == [kind |-> "none", message |-> <<>>,
              value |-> [succeeded |-> 0, errors |-> 0, total |-> 0]]

\* throw new Error(message)
Raised(message) ==
    [kind |-> "raised", message |-> message,
     value |-> [succeeded |-> 0, errors |-> 0, total |-> 0]]

\* return { deleted, errors, total: files.length } (organizeFilesByType returns its
\* results object, which has no total: total is 0 then)
Returned(f, res, list) ==
    [kind |-> "returned", message |-> <<>>,
     value |-> [succeeded |-> res.succeeded, errors |-> res.errors,
                total |-> IF f \in SequentialFlows THEN Len(list) ELSE 0]]

\* isAllowed(k) on instance l returns true.
Admits(l, k) ==
    ~LimitReached(RecentRequests(requests[l][k], now, Limiter(l).timeWindow),
                  Limiter(l).maxRequests)

\* this.requests after an isAllowed(k) on instance l that returned true.
Admitted(l, k) ==
    [requests EXCEPT ![l][k] =
        Append(RecentRequests(requests[l][k], now, Limiter(l).timeWindow), now)]

\* Variant of ResultsAfterItem: a failed item is not counted.
ResultsAfterItemUncounted(res, ok) ==
    IF ok THEN [res EXCEPT !.succeeded = @ + 1] ELSE res

\* deleted++ in the try block, errors++ in the catch block.
ResultsAfterItem(res, ok) ==
    IF ok THEN [res EXCEPT !.succeeded = @ + 1] ELSE [res EXCEPT !.errors = @ + 1]

\* Variant of LoopFrom: an item that is denied admission is given up and the timer
\* is followed by the next item.
LoopFromSkipsDenied(f, list, res, i) ==
    IF i > Len(list)
    THEN /\ idx' = i
         /\ pc' = "done"
         /\ outcome' = Returned(f, res, list)
         /\ UNCHANGED <<requests, nmutations, polled, calls>>
    ELSE /\ UNCHANGED outcome
         /\ IF Admits(FlowLimiter(f), FlowKey(f))
            THEN /\ idx' = i
                 /\ requests' = Admitted(FlowLimiter(f), FlowKey(f))
                 /\ nmutations' = nmutations + 1
                 /\ calls' = Append(calls, i)
                 /\ pc' = "remote"
                 /\ UNCHANGED polled
            ELSE /\ idx' = i + 1
                 /\ pc' = "sleep"
                 /\ polled' = polled \cup {i}
                 /\ UNCHANGED <<requests, nmutations, calls>>

\* The for loop of a sequential flow from item i on, up to its next await: the
\* return when no item is left; else the isAllowed call of the while loop, followed
\* by the item's remote call or by the setTimeout.
LoopFrom(f, list, res, i) ==
    /\ idx' = i
    /\ IF i > Len(list)
       THEN /\ pc' = "done"
            /\ outcome' = Returned(f, res, list)
            /\ UNCHANGED <<requests, nmutations, polled, calls>>
       ELSE /\ UNCHANGED outcome
            /\ IF Admits(FlowLimiter(f), FlowKey(f))
               THEN /\ requests' = Admitted(FlowLimiter(f), FlowKey(f))
                    /\ nmutations' = nmutations + 1
                    /\ calls' = Append(calls, i)
                    /\ pc' = "remote"
                    /\ UNCHANGED polled
               ELSE /\ pc' = "sleep"
                    /\ polled' = polled \cup {i}
                    /\ UNCHANGED <<requests, nmutations, calls>>

\* deleteOldFiles(daysOld), deleteOldEmails(daysOld), up to the listing call.
DeleteOld(f, daysOld) ==
    /\ pc = "idle"
    /\ flow' = f
    /\ IF daysOld < 1 \/ daysOld > 3650
       THEN /\ pc' = "raised"
            /\ UNCHANGED started
            /\ outcome' = Raised(GetUserFriendlyError(
                              NewError(<<"Invalid", "age", "threshold.", "Must", "be",
                                         "between", "1", "and", "3650", "days.">>),
                              FlowContext(f)))
       ELSE /\ pc' = "listing"
            /\ started' = Append(started, now)
            /\ UNCHANGED outcome
    /\ UNCHANGED <<now, requests, files, idx, results, folders, tasks, nmutations,
                   ncreates, polled, deniedCounted, calls,
                   created, moves, notBulk>>

\* deleteSpamEmails(), up to the listing call.
DeleteSpamEmails ==
    /\ pc = "idle"
    /\ started' = Append(started, now)
    /\ flow' = "deleteSpamEmails"
    /\ pc' = "listing"
    /\ UNCHANGED <<now, requests, files, idx, results, outcome, folders, tasks,
                   nmutations, ncreates, polled, deniedCounted, calls,
                   created, moves, notBulk>>

\* deleteFiles(fileIds), up to its first await.
DeleteFiles(fileIds) ==
    /\ pc = "idle"
    /\ flow' = "deleteFiles"
    /\ files' = fileIds
    /\ IF Len(fileIds) = 0
       THEN /\ pc' = "raised"
            /\ outcome' = Raised(<<"No", "files", "specified", "for", "deletion">>)
            /\ UNCHANGED <<requests, idx, nmutations, polled, calls, started>>
       ELSE IF TooMany("deleteFiles", Len(fileIds))
       THEN /\ pc' = "raised"
            /\ outcome' = Raised(TooManyMessage("deleteFiles", Len(fileIds)))
            /\ UNCHANGED <<requests, idx, nmutations, polled, calls, started>>
       ELSE /\ LoopFrom("deleteFiles", fileIds, results, 1)
            /\ started' = Append(started, now)
    /\ UNCHANGED <<now, results, folders, tasks, ncreates, deniedCounted, created, moves,
                   notBulk>>

\* organizeFilesByType(), up to the listing call of searchFiles(), which is not
\* issued when isAllowed('search') returns false.
OrganizeFilesByType ==
    /\ pc = "idle"
    /\ flow' = "organizeFilesByType"
    /\ IF Admits("drive", "search")
       THEN /\ requests' = Admitted("drive", "search")
            /\ started' = Append(started, now)
            /\ pc' = "listing"
            /\ UNCHANGED outcome
       ELSE /\ pc' = "raised"
            /\ outcome' = Raised(GetUserFriendlyError(
                              NewError(<<"Too", "many", "search", "requests.", "Please",
                                         "wait", "a", "moment.">>),
                              FlowContext("organizeFilesByType")))
            /\ UNCHANGED <<requests, started>>
    /\ UNCHANGED <<now, files, idx, results, folders, tasks, nmutations, ncreates,
                   polled, deniedCounted, calls,
                   created, moves, notBulk>>

\* The error a flow's catch block receives when its listing call is rejected with
\* error: searchFiles has translated it already for organizeFilesByType.
ListingError(f, error) ==
    IF f = "organizeFilesByType"
    THEN NewError(GetUserFriendlyError(error, <<"File", "search">>))
    ELSE error

\* Variant of ListFails: the error of the listing call is rethrown as it is.
ListFailsUntranslated(error) ==
    /\ pc = "listing"
    /\ pc' = "raised"
    /\ outcome' = Raised(error.message)
    /\ UNCHANGED <<now, requests, flow, files, idx, results, folders, tasks,
                   nmutations, ncreates, polled, deniedCounted, calls, started,
                   created, moves, notBulk>>

\* The listing call is rejected.
ListFails(error) ==
    /\ pc = "listing"
    /\ pc' = "raised"
    /\ outcome' = Raised(GetUserFriendlyError(ListingError(flow, error),
                                              FlowContext(flow)))
    /\ UNCHANGED <<now, requests, flow, files, idx, results, folders, tasks,
                   nmutations, ncreates, polled, deniedCounted, calls, started,
                   created, moves, notBulk>>

\* Variant of BatchFrom: the batch is all that is left of the list.
BatchFromRest(list, i) ==
    [j \in 1..(Len(list) - i + 1) |-> "start"]

\* The callbacks of the batch that starts at item i: batch.map(async (file) => ...).
BatchFrom(list, i) ==
    [j \in 1..(IF Len(list) - i + 1 < BatchSize THEN Len(list) - i + 1 ELSE BatchSize)
        |-> "start"]

\* The outer for loop of organizeFilesByType from item i on, up to its next await.
BatchLoopFrom(list, res, i) ==
    /\ idx' = i
    /\ IF i > Len(list)
       THEN /\ pc' = "done"
            /\ outcome' = Returned("organizeFilesByType", res, list)
            /\ tasks' = <<>>
       ELSE /\ pc' = "batch"
            /\ tasks' = BatchFrom(list, i)
            /\ UNCHANGED outcome

\* The listing call of flow f is fulfilled with a list of candidates: the safety
\* check, then the flow's loop up to its first await.
ListReturns(f, list) ==
    /\ pc = "listing"
    /\ flow = f
    /\ files' = list
    /\ IF TooMany(f, Len(list))
       THEN /\ pc' = "raised"
            /\ outcome' = Raised(GetUserFriendlyError(
                              NewError(TooManyMessage(f, Len(list))),
                              FlowContext(f)))
            /\ UNCHANGED <<requests, idx, tasks, nmutations, polled, calls>>
       ELSE IF f = "organizeFilesByType"
       THEN /\ BatchLoopFrom(list, results, 1)
            /\ UNCHANGED <<requests, nmutations, polled, calls>>
       ELSE /\ LoopFrom(f, list, results, 1)
            /\ UNCHANGED tasks
    /\ UNCHANGED <<now, flow, results, folders, ncreates, deniedCounted, started,
                   created, moves, notBulk>>

\* A sequential flow: the timer of the while loop fires and isAllowed is called again.
Wake ==
    /\ pc = "sleep"
    /\ LoopFrom(flow, files, results, idx)
    /\ UNCHANGED <<now, flow, files, results, folders, tasks, ncreates, deniedCounted,
                   started,
                   created, moves, notBulk>>

\* A sequential flow: while the flow waits for admission and the limiter is still
\* full, the clock advances.
SleepElapses ==
    /\ pc = "sleep"
    /\ ~Admits(FlowLimiter(flow), FlowKey(flow))
    /\ now' = now + 1
    /\ UNCHANGED <<requests, bulkVars, notBulk>>

\* Variant of ItemSettles: the rejection of an item's remote call is rethrown.
ItemSettlesAborting(ok) ==
    /\ pc = "remote"
    /\ IF ok
       THEN /\ results' = ResultsAfterItem(results, ok)
            /\ LoopFrom(flow, files, ResultsAfterItem(results, ok), idx + 1)
       ELSE /\ pc' = "raised"
            /\ outcome' = Raised(<<"Forbidden">>)
            /\ UNCHANGED <<requests, idx, results, nmutations, polled, calls>>
    /\ UNCHANGED <<now, flow, files, folders, tasks, ncreates, deniedCounted, started,
                   created, moves, notBulk>>

\* A sequential flow: the remote call of the item is fulfilled (ok) or rejected.
ItemSettles(ok) ==
    /\ pc = "remote"
    /\ results' = ResultsAfterItem(results, ok)
    /\ LoopFrom(flow, files, ResultsAfterItem(results, ok), idx + 1)
    /\ UNCHANGED <<now, flow, files, folders, tasks, ncreates, deniedCounted, started,
                   created, moves, notBulk>>

\* The item the j-th callback of the batch was called with.
FileOf(j) == idx + j - 1

\* moveFileToFolder(file.id, folderId) in the j-th callback, folderId being the value
\* of folders[type] at the call, up to its first await: the files.get call, or the
\* throw when isAllowed('moveFile') returns false, which the callback's catch block
\* counts.
CallMoveFile(j, folderId) ==
    /\ moves' = moves \cup {<<FileOf(j), folderId>>}
    /\ IF Admits("drive", "moveFile")
       THEN /\ requests' = Admitted("drive", "moveFile")
            /\ tasks' = [tasks EXCEPT ![j] = "getting"]
            /\ UNCHANGED <<results, deniedCounted>>
       ELSE /\ results' = [results EXCEPT !.errors = @ + 1]
            /\ deniedCounted' = deniedCounted \cup {FileOf(j)}
            /\ tasks' = [tasks EXCEPT ![j] = "settled"]
            /\ UNCHANGED requests

\* Variant of NeedsFolder: the callback never creates a folder.
NeedsFolderNever(type) ==
    FALSE

\* !folders[type]
NeedsFolder(type) ==
    folders[type] = 0

\* Variant of TaskStarts: an item that matches no category is counted as an error.
TaskStartsCountsUnmatched(j) ==
    /\ pc = "batch"
    /\ j \in DOMAIN tasks
    /\ tasks[j] = "start"
    /\ \A j2 \in 1..(j - 1) : tasks[j2] # "start"
    /\ LET type == TypeOf(files[FileOf(j)])
       IN  IF type = "none"
           THEN /\ tasks' = [tasks EXCEPT ![j] = "settled"]
                /\ results' = [results EXCEPT !.errors = @ + 1]
                /\ UNCHANGED <<requests, nmutations, ncreates, deniedCounted, moves>>
           ELSE IF NeedsFolder(type)
           THEN \* createFolder(folderName), up to its first await
                IF Admits("drive", "createFolder")
                THEN /\ requests' = Admitted("drive", "createFolder")
                     /\ tasks' = [tasks EXCEPT ![j] = "creating"]
                     /\ ncreates' = [ncreates EXCEPT ![type] = @ + 1]
                     /\ nmutations' = nmutations + 1
                     /\ UNCHANGED <<results, deniedCounted, moves>>
                ELSE /\ results' = [results EXCEPT !.errors = @ + 1]
                     /\ deniedCounted' = deniedCounted \cup {FileOf(j)}
                     /\ tasks' = [tasks EXCEPT ![j] = "settled"]
                     /\ UNCHANGED <<requests, nmutations, ncreates, moves>>
           ELSE /\ CallMoveFile(j, folders[type])
                /\ UNCHANGED <<nmutations, ncreates>>
    /\ UNCHANGED <<now, flow, pc, files, idx, outcome, folders, polled, calls, started,
                   created, notBulk>>

\* The j-th callback of the batch runs up to its first await.  The callbacks start
\* in the order of the batch, before any remote call of the batch settles.
TaskStarts(j) ==
    /\ pc = "batch"
    /\ j \in DOMAIN tasks
    /\ tasks[j] = "start"
    /\ \A j2 \in 1..(j - 1) : tasks[j2] # "start"
    /\ LET type == TypeOf(files[FileOf(j)])
       IN  IF type = "none"
           THEN /\ tasks' = [tasks EXCEPT ![j] = "settled"]
                /\ UNCHANGED <<requests, results, nmutations, ncreates, deniedCounted,
                               moves>>
           ELSE IF NeedsFolder(type)
           THEN \* createFolder(folderName), up to its first await
                IF Admits("drive", "createFolder")
                THEN /\ requests' = Admitted("drive", "createFolder")
                     /\ tasks' = [tasks EXCEPT ![j] = "creating"]
                     /\ ncreates' = [ncreates EXCEPT ![type] = @ + 1]
                     /\ nmutations' = nmutations + 1
                     /\ UNCHANGED <<results, deniedCounted, moves>>
                ELSE /\ results' = [results EXCEPT !.errors = @ + 1]
                     /\ deniedCounted' = deniedCounted \cup {FileOf(j)}
                     /\ tasks' = [tasks EXCEPT ![j] = "settled"]
                     /\ UNCHANGED <<requests, nmutations, ncreates, moves>>
           ELSE /\ CallMoveFile(j, folders[type])
                /\ UNCHANGED <<nmutations, ncreates>>
    /\ UNCHANGED <<now, flow, pc, files, idx, outcome, folders, polled, calls, started,
                   created, notBulk>>

\* The files.create call of the j-th callback settles: folders[type] = folder.id
\* (the id of a folder: the index of the item whose call created it) and the move,
\* or the catch block.
CreateSettles(j, ok) ==
    /\ pc = "batch"
    /\ j \in DOMAIN tasks
    /\ tasks[j] = "creating"
    /\ \A j2 \in DOMAIN tasks : tasks[j2] # "start"
    /\ IF ok
       THEN /\ folders' = [folders EXCEPT ![TypeOf(files[FileOf(j)])] = FileOf(j)]
            /\ created' = [created EXCEPT ![TypeOf(files[FileOf(j)])] = @ \cup {FileOf(j)}]
            /\ CallMoveFile(j, folders'[TypeOf(files[FileOf(j)])])
       ELSE /\ results' = [results EXCEPT !.errors = @ + 1]
            /\ tasks' = [tasks EXCEPT ![j] = "settled"]
            /\ UNCHANGED <<requests, folders, deniedCounted, created, moves>>
    /\ UNCHANGED <<now, flow, pc, files, idx, outcome, nmutations, ncreates, polled,
                   calls, started,
                   notBulk>>

\* The files.get call of the j-th callback settles: the files.update call, or the
\* catch block.
GetSettles(j, ok) ==
    /\ pc = "batch"
    /\ j \in DOMAIN tasks
    /\ tasks[j] = "getting"
    /\ \A j2 \in DOMAIN tasks : tasks[j2] # "start"
    /\ IF ok
       THEN /\ tasks' = [tasks EXCEPT ![j] = "updating"]
            /\ nmutations' = nmutations + 1
            /\ UNCHANGED results
       ELSE /\ tasks' = [tasks EXCEPT ![j] = "settled"]
            /\ results' = [results EXCEPT !.errors = @ + 1]
            /\ UNCHANGED nmutations
    /\ UNCHANGED <<now, requests, flow, pc, files, idx, outcome, folders, ncreates,
                   polled, deniedCounted, calls, started,
                   created, moves, notBulk>>

\* The files.update call of the j-th callback settles: results.moved++, or the
\* catch block.
UpdateSettles(j, ok) ==
    /\ pc = "batch"
    /\ j \in DOMAIN tasks
    /\ tasks[j] = "updating"
    /\ tasks' = [tasks EXCEPT ![j] = "settled"]
    /\ results' = ResultsAfterItem(results, ok)
    /\ UNCHANGED <<now, requests, flow, pc, files, idx, outcome, folders, nmutations,
                   ncreates, polled, deniedCounted, calls, started,
                   created, moves, notBulk>>

\* Promise.all of the batch is fulfilled: the next batch, or the return.
BatchSettles ==
    /\ pc = "batch"
    /\ \A j \in DOMAIN tasks : tasks[j] = "settled"
    /\ BatchLoopFrom(files, results, idx + BatchSize)
    /\ UNCHANGED <<now, requests, flow, files, results, folders, nmutations, ncreates,
                   polled, deniedCounted, calls, started,
                   created, moves, notBulk>>

\* The promise of the flow has settled and its caller resumes (the handlers of the
\* components await the flow): the next bulk flow can be called, with fresh locals.
CallerResumes ==
    /\ pc \in {"done", "raised"}
    /\ Len(started) < MaxRuns
    /\ flow' = "none"
    /\ pc' = "idle"
    /\ files' = <<>>
    /\ idx' = 0
    /\ results' = [succeeded |-> 0, errors |-> 0]
    /\ outcome' = NoOutcome
    /\ folders' = [type \in DOMAIN MIME_TYPES |-> 0]
    /\ tasks' = <<>>
    /\ nmutations' = 0
    /\ ncreates' = [type \in DOMAIN MIME_TYPES |-> 0]
    /\ polled' = {}
    /\ deniedCounted' = {}
    /\ calls' = <<>>
    /\ created' = [type \in DOMAIN MIME_TYPES |-> {}]
    /\ moves' = {}
    /\ UNCHANGED <<now, requests, started, notBulk>>

---------------------------------------------------------------------------
(* Adapter operations running concurrently *)

\* The handlers that call an adapter operation in one behaviour; their operations
\* overlap whenever one is called while another awaits.
Callers == 1..MaxCallers

\* The single-shot operations of driveApi.js and of gmailApi.js.
DriveOperations ==
    {"searchFiles", "createFolder", "moveFileToFolder", "shareFile", "downloadFile"}
GmailOperations ==
    {"searchEmails", "listLabels", "createLabel", "deleteLabel", "addLabelToEmail"}
SingleShot == DriveOperations \cup GmailOperations

\* The limiter and the key of the isAllowed call an operation makes on entry.
OpLimiter(op) ==
    IF op \in DriveOperations THEN "drive" ELSE "gmail"

OpKey(op) ==
    CASE op \in {"searchFiles", "searchEmails"} -> "search"
      [] op = "createFolder" -> "createFolder"
      [] op = "moveFileToFolder" -> "moveFile"
      [] op = "shareFile" -> "share"
      [] op = "downloadFile" -> "download"
      [] op = "listLabels" -> "listLabels"
      [] op = "createLabel" -> "createLabel"
      [] op = "deleteLabel" -> "deleteLabel"
      [] op = "addLabelToEmail" -> "addLabel"

\* The message of the error an operation throws when that call returns false.
RateLimitMessage(op) ==
    CASE op \in {"searchFiles", "searchEmails"} ->
            <<"Too", "many", "search", "requests.", "Please", "wait", "a", "moment.">>
      [] op = "createFolder" ->
            <<"Too", "many", "folder", "creation", "requests.", "Please", "wait.">>
      [] op = "moveFileToFolder" ->
            <<"Too", "many", "move", "operations.", "Please", "wait.">>
      [] op = "shareFile" ->
            <<"Too", "many", "share", "operations.", "Please", "wait.">>
      [] op = "downloadFile" ->
            <<"Too", "many", "download", "requests.", "Please", "wait.">>
      [] op = "listLabels" ->
            <<"Too", "many", "requests.", "Please", "wait.">>
      [] op = "createLabel" ->
            <<"Too", "many", "label", "creation", "requests.", "Please", "wait.">>
      [] op = "deleteLabel" ->
            <<"Too", "many", "label", "deletion", "requests.", "Please", "wait.">>
      [] op = "addLabelToEmail" ->
            <<"Too", "many", "label", "operations.", "Please", "wait.">>

\* The context an operation's catch block passes to getUserFriendlyError.
OpContext(op) ==
    CASE op = "searchFiles" -> <<"File", "search">>
      [] op = "createFolder" -> <<"Folder", "creation">>
      [] op = "moveFileToFolder" -> <<"File", "move">>
      [] op = "shareFile" -> <<"File", "sharing">>
      [] op = "downloadFile" -> <<"File", "download">>
      [] op = "searchEmails" -> <<"Email", "search">>
      [] op = "listLabels" -> <<"Label", "list">>
      [] op = "createLabel" -> <<"Label", "creation">>
      [] op = "deleteLabel" -> <<"Label", "deletion">>
      [] op = "addLabelToEmail" -> <<"Label", "assignment">>

\* The limiter and the key of the while loop that admits the items of a polling
\* loop: the for loop of a sequential bulk flow, the detail fetches of searchEmails.
LoopLimiter(op) ==
    IF op = "searchEmails" THEN "gmail" ELSE FlowLimiter(op)

LoopKey(op) ==
    IF op = "searchEmails" THEN "getEmail" ELSE FlowKey(op)

NoOperation ==
    [op |-> "none", pc |-> "idle", items |-> <<>>, checks |-> 0, remote |-> 0,
     refused |-> FALSE, message |-> <<>>]

\* An operation throws.
Throws(o, message) ==
    [o EXCEPT !.pc = "raised", !.message = message]

\* The operations are called in the order of Callers, and those called in one
\* behaviour admit their items on one key of one limiter: loops on different keys
\* share no state.
MayCall(c, op) ==
    /\ ops[c].op = "none"
    /\ \A c2 \in Callers : c2 < c =>
          /\ ops[c2].op # "none"
          /\ op \notin SingleShot \/ op = "searchEmails" =>
                /\ LoopLimiter(ops[c2].op) = LoopLimiter(op)
                /\ LoopKey(ops[c2].op) = LoopKey(op)

\* Variant of CallSingleShot: the operation goes on to its remote call whatever
\* isAllowed returned.
CallSingleShotUnchecked(c, op, valid) ==
    /\ MayCall(c, op)
    /\ ops' = [ops EXCEPT ![c] = [NoOperation EXCEPT !.op = op, !.pc = "remote",
                                     !.checks = 1, !.remote = 1,
                                     !.refused = ~Admits(OpLimiter(op), OpKey(op))]]
    /\ requests' = IF Admits(OpLimiter(op), OpKey(op))
                   THEN Admitted(OpLimiter(op), OpKey(op))
                   ELSE requests
    /\ UNCHANGED <<itemCalls, notAdapter>>

\* A handler calls a single-shot operation, which runs up to its first await: the
\* throw when isAllowed returns false, else the throw of createLabel when
\* validateLength refuses the name (valid: whether it accepts it), else the
\* operation's remote call.
CallSingleShot(c, op, valid) ==
    /\ MayCall(c, op)
    /\ LET o == [NoOperation EXCEPT !.op = op, !.checks = 1]
       IN  IF ~Admits(OpLimiter(op), OpKey(op))
           THEN /\ ops' = [ops EXCEPT ![c] =
                             Throws([o EXCEPT !.refused = TRUE], RateLimitMessage(op))]
                /\ UNCHANGED requests
           ELSE /\ requests' = Admitted(OpLimiter(op), OpKey(op))
                /\ IF op = "createLabel" /\ ~valid
                   THEN ops' = [ops EXCEPT ![c] =
                                   Throws(o, <<"Label", "name", "is", "required.">>)]
                   ELSE ops' = [ops EXCEPT ![c] = [o EXCEPT !.pc = "remote",
                                                             !.remote = 1]]
    /\ UNCHANGED <<itemCalls, notAdapter>>

\* n callbacks of messages.map run one after the other, each up to its first await:
\* isAllowed, then the callback's remote call or its setTimeout.  The array of the
\* key after them, and where each callback stands.
RECURSIVE StartCallbacks(_, _, _)
StartCallbacks(requestTimes, n, lim) ==
    IF n = 0
    THEN [requestTimes |-> requestTimes, items |-> <<>>]
    ELSE LET recentRequests == RecentRequests(requestTimes, now, lim.timeWindow)
         IN  IF LimitReached(recentRequests, lim.maxRequests)
             THEN LET rest == StartCallbacks(requestTimes, n - 1, lim)
                  IN  [rest EXCEPT !.items = <<"sleep">> \o @]
             ELSE LET rest == StartCallbacks(Append(recentRequests, now), n - 1, lim)
                  IN  [rest EXCEPT !.items = <<"remote">> \o @]

\* The number of callbacks that issued their remote call.
Remote(items) ==
    Len(SelectSeq(items, LAMBDA item : item = "remote"))

\* now, n times.
Times(n) == [i \in 1..n |-> now]

\* Variant of PollItem: the item's remote call is issued whatever isAllowed returned.
PollItemUnchecked(c, o, i) ==
    LET l == LoopLimiter(o.op)
        k == LoopKey(o.op)
    IN  /\ requests' = IF Admits(l, k) THEN Admitted(l, k) ELSE requests
        /\ itemCalls' = [itemCalls EXCEPT ![l][k] = Append(@, now)]
        /\ ops' = [ops EXCEPT ![c] = [o EXCEPT !.items[i] = "remote",
                                               !.remote = @ + 1]]

\* The test of the while loop for item i of the polling loop of c, which stands at
\* o: the item's remote call when isAllowed returns true, the setTimeout when it
\* returns false.
PollItem(c, o, i) ==
    LET l == LoopLimiter(o.op)
        k == LoopKey(o.op)
    IN  IF Admits(l, k)
        THEN /\ requests' = Admitted(l, k)
             /\ itemCalls' = [itemCalls EXCEPT ![l][k] = Append(@, now)]
             /\ ops' = [ops EXCEPT ![c] = [o EXCEPT !.items[i] = "remote",
                                                    !.remote = @ + 1]]
        ELSE /\ ops' = [ops EXCEPT ![c] = [o EXCEPT !.items[i] = "sleep"]]
             /\ UNCHANGED <<requests, itemCalls>>

\* The remote call of a single-shot operation settles: the operation returns, or
\* its catch block throws the translated error; moveFileToFolder goes on to its
\* files.update call, and searchEmails to the detail fetches of the n messages of
\* the listing.
RemoteSettles(c, ok, n) ==
    /\ ops[c].pc = "remote"
    /\ LET op == ops[c].op
       IN  IF ~ok
           THEN /\ ops' = [ops EXCEPT ![c] =
                             Throws(@, GetUserFriendlyError(NewError(<<"Forbidden">>),
                                                            OpContext(op)))]
                /\ UNCHANGED <<requests, itemCalls>>
           ELSE IF op = "moveFileToFolder" /\ ops[c].remote = 1
           THEN /\ ops' = [ops EXCEPT ![c].remote = 2]
                /\ UNCHANGED <<requests, itemCalls>>
           ELSE IF op = "searchEmails" /\ n > 0
           THEN LET started2 == StartCallbacks(requests["gmail"]["getEmail"], n,
                                               Limiter("gmail"))
                IN  /\ requests' = [requests EXCEPT !["gmail"]["getEmail"] =
                                       started2.requestTimes]
                    /\ itemCalls' = [itemCalls EXCEPT !["gmail"]["getEmail"] =
                                        @ \o Times(Remote(started2.items))]
                    /\ ops' = [ops EXCEPT ![c].pc = "polling",
                                          ![c].items = started2.items,
                                          ![c].remote = @ + Remote(started2.items)]
           ELSE /\ ops' = [ops EXCEPT ![c].pc = "returned"]
                /\ UNCHANGED <<requests, itemCalls>>
    /\ UNCHANGED notAdapter

\* A sequential bulk flow, called by a handler, reaches its for loop with n items
\* and runs up to the first await of the loop.
LoopStarts(c, f, n) ==
    /\ MayCall(c, f)
    /\ PollItem(c, [NoOperation EXCEPT !.op = f, !.pc = "polling",
                                        !.items = [i \in 1..n |-> "start"]], 1)
    /\ UNCHANGED notAdapter

\* The timer of a waiting item fires: the test of the while loop again.
ItemWakes(c, i) ==
    /\ i \in DOMAIN ops[c].items
    /\ ops[c].items[i] = "sleep"
    /\ PollItem(c, ops[c], i)
    /\ UNCHANGED notAdapter

\* The remote call of item i settles.  A sequential flow counts the outcome (see
\* ItemSettles) and goes on to the next item or returns; a detail fetch that is rejected rejects the
\* Promise.all of searchEmails, whose catch block throws, and searchEmails returns
\* when the last fetch is fulfilled.  The other callbacks run on in either case.
ItemCallSettles(c, i, ok) ==
    /\ i \in DOMAIN ops[c].items
    /\ ops[c].items[i] = "remote"
    /\ LET op == ops[c].op
           settled == [ops[c] EXCEPT !.items[i] = "settled"]
       IN  IF op = "searchEmails"
           THEN /\ ops' = [ops EXCEPT ![c] =
                    IF settled.pc = "polling" /\ ~ok
                    THEN Throws(settled,
                                GetUserFriendlyError(NewError(<<"Forbidden">>),
                                                     OpContext(op)))
                    ELSE IF /\ settled.pc = "polling"
                            /\ \A i2 \in DOMAIN settled.items :
                                   settled.items[i2] = "settled"
                    THEN [settled EXCEPT !.pc = "returned"]
                    ELSE settled]
                /\ UNCHANGED <<requests, itemCalls>>
           ELSE IF i = Len(settled.items)
           THEN /\ ops' = [ops EXCEPT ![c] = [settled EXCEPT !.pc = "returned"]]
                /\ UNCHANGED <<requests, itemCalls>>
           ELSE PollItem(c, settled, i + 1)
    /\ UNCHANGED notAdapter

---------------------------------------------------------------------------
(* Calls of the utility functions *)

\* The strings of at most n characters of an alphabet.
Strings(alphabet, n) == UNION {[1..k -> alphabet] : k \in 0..n}

\* The string of n characters that repeats u.
Fill(u, n) == [i \in 1..n |-> u[((i - 1) % Len(u)) + 1]]

\* Strings longer than the limit: every string of one or two characters of the
\* alphabet, repeated up to limit + 1 characters.
Fills(alphabet, limit) == {Fill(u, limit + 1) : u \in Strings(alphabet, 2) \ {<<>>}}

\* status and code of the errors that are translated: absent, the statuses of the
\* table, a status outside it, and names of inherited properties.
StatusKeys ==
    {""} \cup DOMAIN statusMessages \cup {"418"} \cup DOMAIN inheritedMessages
CodeKeys == {"", "404", "429", "418", "constructor"}

\* Their messages.
Messages ==
    {<<>>,
     <<"Network", "Error">>,
     <<"Failed", "to", "fetch">>,
     <<"Quota", "exceeded", "for", "user", "12345">>,
     <<"timeout", "of", "5000ms", "exceeded">>,
     <<"Insufficient", "Permission", "at", "request", "(app.js:10)">>,
     <<"quota", "and", "network", "trouble">>,
     <<"TypeError:", "token", "ya29.secret", "is", "undefined">>}

\* The context labels.
Contexts == {<<"Operation">>, <<"File", "search">>}

ErrorArguments ==
    [error : [status : StatusKeys, code : CodeKeys, message : Messages],
     context : Contexts]

DriveAlphabet == {"'", "-", "/", "*", " ", "a"}
DriveSamples ==
    {<<";", "d", "r", "o", "p">>,
     <<";", " ", "D", "R", "O", "P">>,
     <<";", "d", "e", "l", "e", "t", "e">>,
     <<";", "	", " ", "D", "r", "o", "p">>,
     <<"a", ";", "d", "r", "o", "p", " ", "b">>,
     <<";", "d", "r", "-", "-", " ", "o", "p">>,
     <<"i", "t", "'", "s">>,
     <<"a", " ", "-", "-", " ", "b">>}
DriveQueries ==
    Strings(DriveAlphabet, MaxTyped) \cup Fills(DriveAlphabet, QueryMaxLength)
        \cup DriveSamples

GmailAlphabet == {"a", " ", "\"", "<", "(", "-"}
GmailSamples ==
    {<<"f", "r", "o", "m", ":", "a">>,
     <<"F", "R", "O", "M", ":", "a", " ", "b">>,
     <<"a", " ", "A", "N", "D", " ", "b">>,
     <<"-">>,
     <<"o", "r">>,
     <<"a", "(", "b">>,
     <<"i", "s", ":", "x", " ", "(">>,
     <<"\"", "a", " ", "b", "\"">>,
     <<"\"", "a", "(", "\"", " ", "b">>,
     <<"a", "\"", "b">>,
     <<"<", "b", ">", " ", "a">>,
     <<"{", "a", "}">>,
     <<"a", "@", "b", ".", "c">>,
     <<"n", "o", "t", " ", "!">>,
     <<"\"", "(", "\"", " ", "\"", ")", "\"">>,
     <<"x", "\\", "y">>}
GmailQueries ==
    Strings(GmailAlphabet, MaxTyped) \cup Fills(GmailAlphabet, QueryMaxLength)
        \cup GmailSamples

FilenameAlphabet == {"a", ".", "/"}
FilenameSamples ==
    {<<"a", "<", "b", ".", "c">>,
     <<"a", "\\", "b">>,
     <<"<", ">">>,
     <<"a", ":", "b", "|", "c", "?", "*">>,
     <<".", ".">>,
     <<"<", "a", ".", "a", "a", "a", "a", "a", "a", "a", "a">>,
     <<"a", "	", "b">>}
Filenames ==
    Strings(FilenameAlphabet, FilenameMaxLength + 1) \cup FilenameSamples

NumericAlphabet == {"1", "9", "-", " ", "a", "."}
NumericSamples ==
    {<<"a", "b", "c">>,
     <<"0">>,
     <<"9", "9", "9", "9", "9">>,
     <<"1", "2", "p", "x">>,
     <<"3", ".", "7">>,
     <<"+", "7">>,
     <<"-", "1", "2">>,
     <<" ", " ", "4", "2">>,
     <<"9", "9", "9", "9">>,
     <<"1", "0", "0", "0", "0">>,
     <<"3", "6", "5", "0">>,
     <<"3", "6", "5", "1">>}
\* min, max and defaultValue: the defaults of the parameters, the range of an age in
\* days, a range around zero, a range of one value, and a range with min above max.
NumericRanges ==
    {[min |-> 0, max |-> 9999, defaultValue |-> 365],
     [min |-> 1, max |-> 3650, defaultValue |-> 365],
     [min |-> -5, max |-> 5, defaultValue |-> 100],
     [min |-> 19, max |-> 19, defaultValue |-> 0],
     [min |-> 5, max |-> 1, defaultValue |-> 3]}
NumericArguments ==
    [value : Strings(NumericAlphabet, MaxTyped) \cup NumericSamples,
     range : NumericRanges]

CallValidateNumericInput ==
    /\ fn = "none"
    /\ fn' = "validateNumericInput"
    /\ out' = ValidateNumericInput(arg.value, arg.range.min, arg.range.max,
                                   arg.range.defaultValue)
    /\ UNCHANGED <<arg, notFn>>

CallGetUserFriendlyError ==
    /\ fn = "none"
    /\ fn' = "getUserFriendlyError"
    /\ out' = GetUserFriendlyError(arg.error, arg.context)
    /\ UNCHANGED <<arg, notFn>>

CallSanitizeDriveQuery ==
    /\ fn = "none"
    /\ fn' = "sanitizeDriveQuery"
    /\ out' = SanitizeDriveQuery(arg)
    /\ UNCHANGED <<arg, notFn>>

CallSanitizeGmailQuery ==
    /\ fn = "none"
    /\ fn' = "sanitizeGmailQuery"
    /\ out' = SanitizeGmailQuery(arg)
    /\ UNCHANGED <<arg, notFn>>

CallSanitizeFilename ==
    /\ fn = "none"
    /\ fn' = "sanitizeFilename"
    /\ out' = SanitizeFilename(arg)
    /\ UNCHANGED <<arg, notFn>>

---------------------------------------------------------------------------
(* Specifications *)

InitRateLimiters ==
    /\ requests = [l \in Limiters |-> [k \in CallSiteKeys(l) |-> <<>>]]
    /\ ret = NoRet
    /\ granted = [l \in Limiters |-> [k \in KeysOf(l) |-> <<>>]]
    /\ grantedSinceReset = [l \in Limiters |-> [k \in KeysOf(l) |-> <<>>]]
    /\ deniedAt = [l \in Limiters |-> [k \in KeysOf(l) |-> -1]]
    /\ ncalls = 0

InitOAuth ==
    /\ storage = EmptyStorage
    /\ tokenClient = FALSE
    /\ inflight = {}
    /\ loading = TRUE
    /\ appError = "none"
    /\ isSignedIn = FALSE
    /\ handled = NoResponse
    /\ consumed = Null
    /\ signInVerify = "none"
    /\ nresponses = 0
    /\ nelapses = 0
    /\ lastStore = [state |-> Null, at |-> 0, prev |-> Null]
    /\ sent = Null

InitBulk ==
    /\ flow = "none"
    /\ pc = "idle"
    /\ files = <<>>
    /\ idx = 0
    /\ results = [succeeded |-> 0, errors |-> 0]
    /\ outcome = NoOutcome
    /\ folders = [type \in DOMAIN MIME_TYPES |-> 0]
    /\ tasks = <<>>
    /\ nmutations = 0
    /\ ncreates = [type \in DOMAIN MIME_TYPES |-> 0]
    /\ polled = {}
    /\ deniedCounted = {}
    /\ calls = <<>>
    /\ started = <<>>
    /\ created = [type \in DOMAIN MIME_TYPES |-> {}]
    /\ moves = {}

InitAdapters ==
    /\ ops = [c \in Callers |-> NoOperation]
    /\ itemCalls = [l \in Limiters |->
                      [k \in CallSiteKeys(l) \cap LoopKeys |-> <<>>]]

InitFn ==
    /\ fn = "none"
    /\ arg = <<>>
    /\ out = <<>>
    /\ attempts = <<>>

\* The rate limiters under every interleaving of calls.
Init ==
    /\ now = 0
    /\ InitRateLimiters
    /\ InitOAuth
    /\ InitBulk
    /\ InitAdapters
    /\ InitFn

Next ==
    \/ Tick
    \/ \E l \in Limiters : \E k \in KeysOf(l) : IsAllowed(l, k)
    \/ \E l \in Limiters : \E k \in KeysOf(l) : GetRemaining(l, k)
    \/ \E l \in Limiters : \E k \in KeysOf(l) : GetTimeUntilReset(l, k)
    \/ \E l \in Limiters : Reset(l)

Spec == Init /\ [][Next]_vars

\* The sign-in flow under every order of requests, responses and clock jumps.
InitSignIn ==
    /\ now = StartTime
    /\ InitRateLimiters
    /\ InitOAuth
    /\ InitBulk
    /\ InitAdapters
    /\ InitFn

NextSignIn ==
    \/ Elapse
    \/ InitTokenClient
    \/ RequestAccessToken
    \/ \E st \in Tokens \cup {Null} : \E err \in BOOLEAN : AuthResponse(st, err)
    \/ HandleSignOut
    \/ HandleRetry

SpecSignIn == InitSignIn /\ [][NextSignIn]_vars

\* One run of a bulk flow under every listing response, every outcome of the
\* remote calls and every order in which the calls of a batch settle.
InitBulkRun ==
    /\ now = 0
    /\ InitRateLimiters
    /\ InitOAuth
    /\ InitBulk
    /\ InitAdapters
    /\ InitFn

\* Date.now() advances while the run awaits a listing, a remote call or a sleep.
\* The callbacks of a batch start in one synchronous block, and the clock readings
\* before the call (the limiters are empty) and after the return are read by nothing.
ClockAdvances ==
    /\ pc \notin {"idle", "done", "raised"}
    /\ \A j \in DOMAIN tasks : tasks[j] # "start"
    /\ Tick

NextBulk ==
    \/ ClockAdvances
    \/ OrganizeFilesByType
    \/ \E f \in {"deleteOldFiles", "deleteOldEmails"} : \E daysOld \in DaysOld :
          DeleteOld(f, daysOld)
    \/ DeleteSpamEmails
    \/ \E fileIds \in Listings("deleteFiles") : DeleteFiles(fileIds)
    \/ \E error \in ListErrors : ListFails(error)
    \/ \E f \in Flows \ {"deleteFiles"} : \E list \in Listings(f) : ListReturns(f, list)
    \/ Wake
    \/ \E ok \in BOOLEAN : ItemSettles(ok)
    \/ \E j \in 1..BatchSize : TaskStarts(j)
    \/ \E j \in 1..BatchSize : \E ok \in BOOLEAN : CreateSettles(j, ok)
    \/ \E j \in 1..BatchSize : \E ok \in BOOLEAN : GetSettles(j, ok)
    \/ \E j \in 1..BatchSize : \E ok \in BOOLEAN : UpdateSettles(j, ok)
    \/ BatchSettles

SpecBulk == InitBulkRun /\ [][NextBulk]_vars

\* One run of a bulk flow in which timers fire and remote calls settle.  The clock
\* advances only while the flow waits for admission with the limiter full: time
\* that passes at any other moment only empties the limiter's window sooner.
NextBulkLive ==
    \/ OrganizeFilesByType
    \/ \E f \in {"deleteOldFiles", "deleteOldEmails"} : \E daysOld \in DaysOld :
          DeleteOld(f, daysOld)
    \/ DeleteSpamEmails
    \/ \E fileIds \in Listings("deleteFiles") : DeleteFiles(fileIds)
    \/ \E error \in ListErrors : ListFails(error)
    \/ \E f \in Flows \ {"deleteFiles"} : \E list \in Listings(f) : ListReturns(f, list)
    \/ Wake
    \/ SleepElapses
    \/ \E ok \in BOOLEAN : ItemSettles(ok)
    \/ \E j \in 1..BatchSize : TaskStarts(j)
    \/ \E j \in 1..BatchSize : \E ok \in BOOLEAN : CreateSettles(j, ok)
    \/ \E j \in 1..BatchSize : \E ok \in BOOLEAN : GetSettles(j, ok)
    \/ \E j \in 1..BatchSize : \E ok \in BOOLEAN : UpdateSettles(j, ok)
    \/ BatchSettles

\* Time advances while the flow waits, its timer fires, every remote call settles
\* and every continuation that is ready runs.
FairBulk ==
    /\ WF_vars(SleepElapses)
    /\ WF_vars(Wake)
    /\ WF_vars(\E ok \in BOOLEAN : ItemSettles(ok))
    /\ WF_vars(\E j \in 1..BatchSize : TaskStarts(j))
    /\ WF_vars(\E j \in 1..BatchSize : \E ok \in BOOLEAN : CreateSettles(j, ok))
    /\ WF_vars(\E j \in 1..BatchSize : \E ok \in BOOLEAN : GetSettles(j, ok))
    /\ WF_vars(\E j \in 1..BatchSize : \E ok \in BOOLEAN : UpdateSettles(j, ok))
    /\ WF_vars(BatchSettles)

SpecBulkLive == InitBulkRun /\ [][NextBulkLive]_vars /\ FairBulk

\* Successive runs of the sequential flows.
NextBulkSession ==
    \/ Tick
    \/ \E f \in {"deleteOldFiles", "deleteOldEmails"} : \E daysOld \in DaysOld :
          DeleteOld(f, daysOld)
    \/ DeleteSpamEmails
    \/ \E fileIds \in Listings("deleteFiles") : DeleteFiles(fileIds)
    \/ \E error \in ListErrors : ListFails(error)
    \/ \E f \in SequentialFlows \ {"deleteFiles"} : \E list \in Listings(f) :
          ListReturns(f, list)
    \/ Wake
    \/ \E ok \in BOOLEAN : ItemSettles(ok)
    \/ CallerResumes

SpecBulkSession == InitBulkRun /\ [][NextBulkSession]_vars


\* The utility functions, each applied to the arguments of its input set.
InitCall(arguments) ==
    /\ now = 0
    /\ InitRateLimiters
    /\ InitOAuth
    /\ InitBulk
    /\ InitAdapters
    /\ fn = "none"
    /\ arg \in arguments
    /\ out = <<>>
    /\ attempts = <<>>

SpecErrors == InitCall(ErrorArguments) /\ [][CallGetUserFriendlyError]_vars

SpecDriveQuery == InitCall(DriveQueries) /\ [][CallSanitizeDriveQuery]_vars

SpecGmailQuery == InitCall(GmailQueries) /\ [][CallSanitizeGmailQuery]_vars

SpecFilename == InitCall(Filenames) /\ [][CallSanitizeFilename]_vars


SpecNumeric == InitCall(NumericArguments) /\ [][CallValidateNumericInput]_vars

\* The bootstrap of the App from its mount: the effect has set the first timer, with
\* loading true, and called loadGoogleApi.
InitBootstrap ==
    /\ now = 0
    /\ InitRateLimiters
    /\ InitOAuth
    /\ InitBulk
    /\ InitAdapters
    /\ fn = "none" /\ arg = <<>> /\ out = <<>>
    /\ attempts = <<NewAttempt(TRUE)>>

NextBootstrap ==
    \/ TimePasses
    \/ \E i \in 1..MaxAttempts : LoadGoogleApiSucceeds(i)
    \/ \E i \in 1..MaxAttempts : LoadGoogleApiFails(i)
    \/ \E i \in 1..MaxAttempts : InitTimeoutFires(i)
    \/ HandleRetryClick

SpecBootstrap == InitBootstrap /\ [][NextBootstrap]_vars

\* The state in which adapter operations are called: operations that have settled
\* before have left the same number of timestamps, all of this instant, under every
\* key (no more than the limiter admits); those under the keys of the polling loops
\* are of per-item remote calls.
InitAdapterRun ==
    /\ now = 0
    /\ ret = NoRet
    /\ granted = [l \in Limiters |-> [k \in KeysOf(l) |-> <<>>]]
    /\ grantedSinceReset = [l \in Limiters |-> [k \in KeysOf(l) |-> <<>>]]
    /\ deniedAt = [l \in Limiters |-> [k \in KeysOf(l) |-> -1]]
    /\ ncalls = 0
    /\ InitOAuth
    /\ InitBulk
    /\ InitFn
    /\ ops = [c \in Callers |-> NoOperation]
    /\ \E used \in 0..DriveMaxRequests :
          /\ requests = [l \in Limiters |-> [k \in CallSiteKeys(l) |->
                            IF used < Limiter(l).maxRequests
                            THEN Times(used)
                            ELSE Times(Limiter(l).maxRequests)]]
          /\ itemCalls = [l \in Limiters |->
                            [k \in CallSiteKeys(l) \cap LoopKeys |-> requests[l][k]]]

\* One single-shot operation, called in whatever state the earlier operations have
\* left the limiters, under every outcome of its remote calls.
NextSingleShot ==
    \/ Tick
    \/ \E op \in SingleShot : \E valid \in BOOLEAN : CallSingleShot(1, op, valid)
    \/ \E ok \in BOOLEAN : \E n \in 0..MaxItems : RemoteSettles(1, ok, n)
    \/ \E i \in 1..MaxItems : ItemWakes(1, i)
    \/ \E i \in 1..MaxItems : \E ok \in BOOLEAN : ItemCallSettles(1, i, ok)

SpecSingleShot == InitAdapterRun /\ [][NextSingleShot]_vars

\* The lengths of the lists the overlapping loops run over: one item, and the longest
\* list explored.
ListLengths == {1, MaxItems}

\* The polling loops of handlers that do not wait for one another, under every order
\* of their steps: the for loops of the sequential bulk flows and the detail
\* fetches of searchEmails.  The limiters are empty at the start.
NextPolling ==
    \/ Tick
    \/ \E c \in Callers : CallSingleShot(c, "searchEmails", TRUE)
    \/ \E c \in Callers : \E ok \in BOOLEAN : \E n \in {0} \cup ListLengths :
          RemoteSettles(c, ok, n)
    \/ \E c \in Callers : \E f \in SequentialFlows : \E n \in ListLengths :
          LoopStarts(c, f, n)
    \/ \E c \in Callers : \E i \in 1..MaxItems : ItemWakes(c, i)
    \/ \E c \in Callers : \E i \in 1..MaxItems : \E ok \in BOOLEAN :
          ItemCallSettles(c, i, ok)

SpecPolling == Init /\ [][NextPolling]_vars

---------------------------------------------------------------------------
(* Properties of the rate limiter *)

\* The step is the return of isAllowed(k) on instance l.
IsAllowedCall(l, k) ==
    /\ ret'.op = "isAllowed"
    /\ ret'.limiter = l
    /\ ret'.key = k

\* Number of entries of times in the half-open window (t - timeWindow, t].
CountIn(times, t, timeWindow) ==
    Cardinality({i \in DOMAIN times : t - timeWindow < times[i] /\ times[i] <= t})

MinOf(times) ==
    CHOOSE m \in {times[i] : i \in DOMAIN times} :
        \A i \in DOMAIN times : m <= times[i]

\* C1: for every limiter and key, whatever calls of isAllowed, getRemaining,
\* getTimeUntilReset and reset were made, the number of stored timestamps never
\* exceeds the limiter's maxRequests.
C1_StoredNeverExceedsMax ==
    \A l \in Limiters : \A k \in CallSiteKeys(l) :
        Len(requests[l][k]) <= Limiter(l).maxRequests

\* A key whose array was filled at different instants was just denied.
C1_Witness ==
    \E l \in Limiters : \E k \in KeysOf(l) :
        /\ Len(requests[l][k]) = Limiter(l).maxRequests
        /\ ret = [op |-> "isAllowed", limiter |-> l, key |-> k, value |-> FALSE]
        /\ requests[l][k][1] < requests[l][k][Len(requests[l][k])]

\* C2 as stated: for every key and every instant t up to now, at most maxRequests
\* isAllowed calls returned true in the trailing window (t - timeWindow, t].
C2_AdmissionsPerWindow ==
    \A l \in Limiters : \A k \in KeysOf(l) : \A t \in 0..now :
        CountIn(granted[l][k], t, Limiter(l).timeWindow) <= Limiter(l).maxRequests

\* C2 amended: for every key and every instant t up to now, at most maxRequests of
\* the isAllowed calls made since the limiter's last reset() returned true in the
\* trailing window (t - timeWindow, t].
C2_AdmissionsPerWindowSinceReset ==
    \A l \in Limiters : \A k \in KeysOf(l) : \A t \in 0..now :
        CountIn(grantedSinceReset[l][k], t, Limiter(l).timeWindow)
            <= Limiter(l).maxRequests

\* maxRequests admissions lie in one window, made at two different instants.
C2_Witness ==
    \E l \in Limiters : \E k \in KeysOf(l) :
        /\ CountIn(grantedSinceReset[l][k], now, Limiter(l).timeWindow)
               = Limiter(l).maxRequests
        /\ \E i, j \in DOMAIN grantedSinceReset[l][k] :
               grantedSinceReset[l][k][i] < grantedSinceReset[l][k][j]
        /\ ret = [op |-> "isAllowed", limiter |-> l, key |-> k, value |-> FALSE]

\* C3 as stated: isAllowed(k) at time now keeps the stored timestamps that are not
\* older than now - timeWindow (one equal to now - timeWindow is kept), returns true
\* and appends now when fewer than maxRequests remain, and returns false otherwise.
C3_KeepsTimestampAtWindowEdge ==
    [][\A l \in Limiters : \A k \in KeysOf(l) :
          IsAllowedCall(l, k) =>
              LET kept == SelectSeq(requests[l][k],
                                    LAMBDA time : time >= now - Limiter(l).timeWindow)
              IN  /\ ret'.value = (Len(kept) < Limiter(l).maxRequests)
                  /\ ret'.value => requests'[l][k] = Append(kept, now)
                  /\ ~ret'.value => requests'[l][k] = kept]_vars

\* C3 amended: isAllowed(k) at time now keeps exactly the stored timestamps newer
\* than now - timeWindow (one equal to now - timeWindow is dropped), returns true and
\* appends now when fewer than maxRequests remain, and returns false otherwise.
C3_DropsTimestampAtWindowEdge ==
    [][\A l \in Limiters : \A k \in KeysOf(l) :
          IsAllowedCall(l, k) =>
              LET kept == SelectSeq(requests[l][k],
                                    LAMBDA time : time > now - Limiter(l).timeWindow)
              IN  /\ ret'.value = (Len(kept) < Limiter(l).maxRequests)
                  /\ ret'.value => requests'[l][k] = Append(kept, now)
                  /\ ~ret'.value => requests'[l][k] = kept]_vars

\* A full array whose timestamps were exactly timeWindow old was replaced by <<now>>.
C3_Witness ==
    \E l \in Limiters : \E k \in KeysOf(l) :
        /\ ret = [op |-> "isAllowed", limiter |-> l, key |-> k, value |-> TRUE]
        /\ requests[l][k] = <<now>>
        /\ Len(grantedSinceReset[l][k]) = Limiter(l).maxRequests + 1
        /\ \A i \in 1..Limiter(l).maxRequests :
               grantedSinceReset[l][k][i] = now - Limiter(l).timeWindow

\* C4: with N = maxRequests and W = timeWindow, the calls of a burst inside one
\* window return true while fewer than N were admitted, the call that follows N
\* admissions inside the window returns false, and a call made once W has elapsed
\* since the last admission returns true.
C4_BurstThenDenyThenRecover ==
    [][\A l \in Limiters : \A k \in KeysOf(l) :
          IsAllowedCall(l, k) =>
              LET h == grantedSinceReset[l][k]
                  N == Limiter(l).maxRequests
                  W == Limiter(l).timeWindow
              IN  /\ (Len(h) < N /\ \A i \in DOMAIN h : now - h[i] < W)
                        => ret'.value = TRUE
                  /\ CountIn(h, now, W) >= N => ret'.value = FALSE
                  /\ (Len(h) > 0 /\ now - h[Len(h)] >= W) => ret'.value = TRUE]_vars

\* N admissions at one instant, a denial in their window, an admission W later.
C4_Witness ==
    \E l \in Limiters : \E k \in KeysOf(l) :
        LET h == grantedSinceReset[l][k]
            N == Limiter(l).maxRequests
            W == Limiter(l).timeWindow
        IN  /\ ret = [op |-> "isAllowed", limiter |-> l, key |-> k, value |-> TRUE]
            /\ Len(h) = N + 1
            /\ \A i \in 1..N : h[i] = h[1]
            /\ deniedAt[l][k] >= h[1]
            /\ deniedAt[l][k] - h[1] < W
            /\ h[N + 1] = now
            /\ now - h[1] = W

\* C5: an isAllowed call that returns false records nothing: the stored arrays of
\* all keys of all limiters are the same after the call as before it.
C5_DenialRecordsNothing ==
    [][\A l \in Limiters : \A k \in KeysOf(l) :
          (IsAllowedCall(l, k) /\ ret'.value = FALSE) => requests' = requests]_vars

\* A call was denied on a full array.
C5_Witness ==
    \E l \in Limiters : \E k \in KeysOf(l) :
        /\ ret = [op |-> "isAllowed", limiter |-> l, key |-> k, value |-> FALSE]
        /\ deniedAt[l][k] = now
        /\ CountIn(requests[l][k], now, Limiter(l).timeWindow) = Limiter(l).maxRequests

\* C6: isAllowed(k1) on one limiter changes neither the stored timestamps of any
\* other key or limiter, nor what isAllowed, getRemaining and getTimeUntilReset
\* would return for them.
C6_KeysAndLimitersIndependent ==
    [][\A l \in Limiters : \A k \in KeysOf(l) :
          IsAllowedCall(l, k) =>
              \A l2 \in Limiters : \A k2 \in CallSiteKeys(l2) :
                  (l2 # l \/ k2 # k) =>
                      /\ requests'[l2][k2] = requests[l2][k2]
                      /\ LimitReached(RecentRequests(requests'[l2][k2], now',
                                                     Limiter(l2).timeWindow),
                                      Limiter(l2).maxRequests)
                           = LimitReached(RecentRequests(requests[l2][k2], now,
                                                         Limiter(l2).timeWindow),
                                          Limiter(l2).maxRequests)
                      /\ RemainingOf(requests'[l2][k2], now', Limiter(l2))
                           = RemainingOf(requests[l2][k2], now, Limiter(l2))
                      /\ TimeUntilResetOf(requests'[l2][k2], now', Limiter(l2))
                           = TimeUntilResetOf(requests[l2][k2], now, Limiter(l2))]_vars

\* Two keys of the Drive limiter and one of the Gmail limiter hold different arrays
\* after an admission.
C6_Witness ==
    /\ ret.op = "isAllowed"
    /\ ret.value = TRUE
    /\ requests["drive"]["search"] # <<>>
    /\ requests["drive"]["delete"] # <<>>
    /\ requests["drive"]["search"] # requests["drive"]["delete"]
    /\ requests["gmail"]["search"] # <<>>
    /\ requests["gmail"]["search"] # requests["drive"]["search"]
    /\ requests["bulk"]["bulk"] = <<>>

\* C7: getRemaining(k) returns maxRequests minus the number of stored timestamps
\* inside the window, never less than 0, and changes no limiter state; and
\* isAllowed(k) returns true exactly when that number is positive at the call.
C7_GetRemaining ==
    [][\A l \in Limiters : \A k \in KeysOf(l) :
          LET inWindow == Cardinality({i \in DOMAIN requests[l][k] :
                              now - requests[l][k][i] < Limiter(l).timeWindow})
              remaining == Max0(Limiter(l).maxRequests - inWindow)
          IN  /\ (ret'.op = "getRemaining" /\ ret'.limiter = l /\ ret'.key = k) =>
                    /\ ret'.value = remaining
                    /\ ret'.value >= 0
                    /\ requests' = requests
              /\ IsAllowedCall(l, k) => (ret'.value = (remaining > 0))]_vars

\* getRemaining returned maxRequests for a key whose stored timestamps have all expired.
C7_Witness ==
    \E l \in Limiters : \E k \in KeysOf(l) :
        /\ ret = [op |-> "getRemaining", limiter |-> l, key |-> k,
                  value |-> Limiter(l).maxRequests]
        /\ Len(requests[l][k]) = Limiter(l).maxRequests
        /\ deniedAt[l][k] >= 0

\* C8: getTimeUntilReset(k) returns 0 when no timestamp is stored for k, and
\* otherwise (minimum stored timestamp + timeWindow) - now, floored at 0.
C8_GetTimeUntilReset ==
    [][\A l \in Limiters : \A k \in KeysOf(l) :
          (ret'.op = "getTimeUntilReset" /\ ret'.limiter = l /\ ret'.key = k) =>
              /\ requests[l][k] = <<>> => ret'.value = 0
              /\ requests[l][k] # <<>> =>
                    ret'.value = Max0(MinOf(requests[l][k]) + Limiter(l).timeWindow - now)
              /\ requests' = requests]_vars

\* getTimeUntilReset returned a positive time for an array holding two different
\* timestamps, after a denial.
C8_Witness ==
    \E l \in Limiters : \E k \in KeysOf(l) :
        /\ ret.op = "getTimeUntilReset"
        /\ ret.limiter = l
        /\ ret.key = k
        /\ ret.value > 0
        /\ Len(requests[l][k]) >= 2
        /\ requests[l][k][1] < requests[l][k][Len(requests[l][k])]
        /\ deniedAt[l][k] >= 0

\* C39: getTimeUntilReset agrees with isAllowed.  An isAllowed(k) call made when
\* getTimeUntilReset(k) would return 0 returns true; and when isAllowed(k) returned
\* false at time T, the isAllowed(k) call made at T + (the value getTimeUntilReset(k)
\* had at T), with no admission for k and no reset() since, returns true.
C39_ResetTimeAgreesWithAdmission ==
    [][\A l \in Limiters : \A k \in KeysOf(l) :
          IsAllowedCall(l, k) =>
              /\ TimeUntilResetOf(requests[l][k], now, Limiter(l)) = 0
                 => ret'.value = TRUE
              /\ /\ deniedAt[l][k] >= 0
                 /\ \A i \in DOMAIN requests[l][k] : requests[l][k][i] <= deniedAt[l][k]
                 /\ now = deniedAt[l][k]
                           + TimeUntilResetOf(requests[l][k], deniedAt[l][k], Limiter(l))
                 => ret'.value = TRUE]_vars

\* isAllowed returned true at the end of the time getTimeUntilReset gave when the
\* key was refused: the timestamp that was the oldest then is one window old.
C39_Witness ==
    \E l \in Limiters : \E k \in KeysOf(l) :
        /\ ret = [op |-> "isAllowed", limiter |-> l, key |-> k, value |-> TRUE]
        /\ deniedAt[l][k] >= 0
        /\ deniedAt[l][k] < now
        /\ Len(granted[l][k]) > Limiter(l).maxRequests
        /\ granted[l][k][Len(granted[l][k]) - Limiter(l).maxRequests]
               + Limiter(l).timeWindow = now
        /\ ncalls = Limiter(l).maxRequests + 2

---------------------------------------------------------------------------
(* Properties of the OAuth state guard and of the sign-in flow *)

\* The step is the handling of a response for which verifyOAuthState(st) was called.
VerifyCall(st) ==
    /\ handled'.verify \in {"true", "false"}
    /\ handled'.state = st

\* C9: verifyOAuthState returns true for the stored, unexpired token, and once it
\* has returned true for a token every later call with that token returns false
\* until storeOAuthState is called again.
C9_VerifiesOnlyOnce ==
    [][\A st \in Tokens :
          VerifyCall(st) =>
              /\ (/\ storage.oauth_state = st
                  /\ storage.oauth_state_timestamp # Null
                  /\ now - ParseInt(storage.oauth_state_timestamp) <= OAuthStateExpiry)
                    => handled'.verify = "true"
              /\ consumed = st => handled'.verify = "false"]_vars

\* The token that signed the user in was presented again, inside its expiry time,
\* and was refused.
C9_Witness ==
    /\ handled.verify = "false"
    /\ handled.state = consumed
    /\ signInVerify = "true"
    /\ nelapses = 0
    /\ nresponses >= 2

\* C10: the user is signed in for a response only after verifyOAuthState returned
\* true for the state of that response; a response whose state is mismatched or
\* expired ends in the security error, and no response that was not verified
\* signs the user in.
C10_SignedInOnlyAfterVerification ==
    /\ isSignedIn => signInVerify = "true"
    /\ handled.outcome = "signedIn" => handled.verify = "true"
    /\ handled.verify = "false" => handled.outcome = "securityError"

\* C11: a verifyOAuthState call whose candidate differs from the stored token
\* returns false and leaves the stored token and timestamp as they were, so that
\* verifyOAuthState of the stored token at the same instant returns what it would
\* have returned before the call (true inside the expiry time).
C11_MismatchConsumesNothing ==
    [][\A st \in Tokens :
          (VerifyCall(st) /\ st # storage.oauth_state) =>
              /\ handled'.verify = "false"
              /\ storage' = storage
              /\ (storage.oauth_state # Null
                     /\ now - lastStore.at <= OAuthStateExpiry)
                    => VerifyOAuthState(storage.oauth_state)']_vars

\* A candidate other than the pending, unexpired token was just refused, and the
\* pending token can still be verified.
C11_Witness ==
    /\ handled.verify = "false"
    /\ handled.state # lastStore.state
    /\ storage.oauth_state = lastStore.state
    /\ storage.oauth_state # Null
    /\ now - lastStore.at <= OAuthStateExpiry
    /\ VerifyOAuthState(lastStore.state)

\* C12 as stated: after any verifyOAuthState call, whether it returned true or
\* false, neither the token nor the timestamp remains in session storage.
C12_DestroyedOnAnyVerification ==
    [][\A st \in Tokens : VerifyCall(st) => storage' = EmptyStorage]_vars

\* C12 amended: after a verifyOAuthState call that returned true neither the token
\* nor the timestamp remains in session storage; a call that returned false leaves
\* both as they were.
C12_DestroyedOnSuccessOnly ==
    [][\A st \in Tokens :
          VerifyCall(st) =>
              /\ handled'.verify = "true" => storage' = EmptyStorage
              /\ handled'.verify = "false" => storage' = storage]_vars

\* The stored token was presented after its expiry time, was refused, and is still
\* stored with its timestamp.
C12_Witness ==
    /\ handled.verify = "false"
    /\ handled.state = storage.oauth_state
    /\ storage.oauth_state_timestamp = NumberToString(lastStore.at)
    /\ now - lastStore.at > OAuthStateExpiry

\* C13: for a candidate equal to the stored token, verifyOAuthState returns false
\* when more than 600,000 ms have elapsed since the storeOAuthState call and true
\* when at most 600,000 ms have.
C13_ExpiresAfterTenMinutes ==
    [][\A st \in Tokens :
          (VerifyCall(st) /\ st = storage.oauth_state) =>
              /\ now - lastStore.at > 600000 => handled'.verify = "false"
              /\ now - lastStore.at <= 600000 => handled'.verify = "true"]_vars

\* The stored token was verified exactly 600,000 ms after it was stored.
C13_Witness ==
    /\ handled.verify = "true"
    /\ handled.state = lastStore.state
    /\ now - lastStore.at = 600000

---------------------------------------------------------------------------
(* Properties of the bulk flows *)

\* C21: a run whose candidate set has no item is rejected by the check that
\* precedes the loop: it throws and does not return a result, so that every run that
\* returned a result had at least one candidate.
C21_EmptyRunIsRejected ==
    (flow \in Flows /\ pc = "done") =>
        /\ Len(files) > 0
        /\ outcome.kind = "returned"

\* C22: the bulk flows are admitted by the bulk-operation limiter: in every window
\* of its timeWindow no more than its maxRequests runs were started.
C22_BulkRunsAreRateLimited ==
    \A t \in 0..now :
        CountIn(started, t, bulkOpLimiter.timeWindow) <= bulkOpLimiter.maxRequests

\* The text contains the number n.
Mentions(message, n) ==
    \E i \in DOMAIN message : message[i] = ToString(n)

\* C16: in organizeFilesByType, deleteOldFiles, deleteSpamEmails and
\* deleteOldEmails, a run whose listing returned more than 1000 candidates has
\* thrown and has issued no create, update, delete or trash call.
C16_OversizedRunMutatesNothing ==
    (flow \in Flows \ {"deleteFiles"} /\ Len(files) > 1000) =>
        /\ pc = "raised"
        /\ outcome.kind = "raised"
        /\ nmutations = 0
        /\ results = [succeeded |-> 0, errors |-> 0]

\* A listing of 1001 candidates was rejected, some time after the flow was called.
C16_Witness ==
    /\ flow \in Flows \ {"deleteFiles"}
    /\ Len(files) = 1001
    /\ pc = "raised"
    /\ now > 0

\* C17: when deleteOldFiles is rejected by the size check, the message of the
\* error that reaches the caller contains the candidate count and the ceiling 1000.
C17_RejectionNamesCountAndCeiling ==
    (flow = "deleteOldFiles" /\ pc = "raised" /\ Len(files) > 1000) =>
        /\ Mentions(outcome.message, Len(files))
        /\ Mentions(outcome.message, 1000)

\* C18: in the sequential flows the settling of an item's remote call, fulfilled
\* or rejected, adds one to deleted or to errors and moves on to the next item, a
\* run inside the loop never throws, and the returned object satisfies
\* succeeded + errors = total = number of candidates.
C18_ItemFailureIsCountedNotRaised ==
    [][flow' \in SequentialFlows =>
          /\ (pc = "remote" /\ idx' # idx) =>
                /\ idx' = idx + 1
                /\ results'.succeeded + results'.errors
                      = results.succeeded + results.errors + 1
                /\ results'.succeeded >= results.succeeded
                /\ results'.errors >= results.errors
          /\ pc \in {"remote", "sleep"} => pc' # "raised"
          /\ pc' = "done" =>
                /\ outcome'.kind = "returned"
                /\ outcome'.value.succeeded + outcome'.value.errors
                      = outcome'.value.total
                /\ outcome'.value.total = Len(files')
                /\ idx' = Len(files') + 1]_vars

\* A run over three candidates returned two successes and one failure.
C18_Witness ==
    /\ flow \in SequentialFlows
    /\ pc = "done"
    /\ outcome.value = [succeeded |-> 2, errors |-> 1, total |-> 3]
    /\ Len(files) = 3

\* C19: in every bulk flow, organizeFilesByType included, no item is counted as a
\* failure because an isAllowed call made for it returned false: the call is
\* retried until it is admitted.
C19_DeniedItemIsRetried ==
    deniedCounted = {}

\* C20: during one run of organizeFilesByType at most one folder creation call is
\* issued per type.
C20_OneFolderCreationPerType ==
    \A type \in DOMAIN MIME_TYPES : ncreates[type] <= 1

\* The sentences getUserFriendlyError chooses from: eight for the statuses of the
\* table, four for the keywords, a generic one.
KeywordSentences ==
    {<<"Network", "error.", "Please", "check", "your", "internet", "connection.">>,
     <<"API", "quota", "exceeded.", "Please", "try", "again", "later.">>,
     <<"Request", "timed", "out.", "Please", "try", "again.">>,
     <<"Permission", "denied.", "Please", "check", "your", "access", "rights.">>}

Sentences ==
    {statusMessages[status] : status \in DOMAIN statusMessages}
      \cup KeywordSentences
      \cup {<<"An", "unexpected", "error", "occurred.", "Please", "try", "again.">>}

\* C23: when the listing call of a run is rejected the run throws, the message of
\* the error is the flow's context label, 'failed:' and one of the fixed sentences,
\* and no create, update, delete or trash call is issued, then or later.
C23_ListingFailureIsFatal ==
    [][/\ (pc = "listing" /\ pc' = "raised" /\ files' = <<>>) =>
             /\ outcome'.kind = "raised"
             /\ \E sentence \in Sentences :
                    outcome'.message = FlowContext(flow) \o <<"failed:">> \o sentence
             /\ nmutations' = 0
             /\ calls' = <<>>
       /\ pc = "raised" => (pc' = "raised" /\ nmutations' = nmutations)]_vars

\* The listing call of a sequential flow was rejected with status 403, some time
\* after the flow was called.
C23_Witness ==
    /\ flow \in SequentialFlows
    /\ pc = "raised"
    /\ files = <<>>
    /\ Len(started) = 1
    /\ started[1] < now
    /\ outcome.message = FlowContext(flow) \o <<"failed:">> \o statusMessages["403"]

\* C24: in the sequential flows the remote calls are issued for the items 1, 2, ...
\* of the listing in that order, a call is issued only when every earlier call has
\* settled, and a run that returned has issued the call of every item.
C24_OneItemAtATimeInListingOrder ==
    flow \in SequentialFlows =>
        /\ \A i \in DOMAIN calls : calls[i] = i
        /\ Len(calls) <= Len(files)
        /\ Len(calls) - (results.succeeded + results.errors)
              = IF pc = "remote" THEN 1 ELSE 0
        /\ pc = "done" => Len(calls) = Len(files)

\* The call of the third item is in flight, after the item waited for admission and
\* one of the two calls before it was rejected.
C24_Witness ==
    /\ flow \in SequentialFlows
    /\ pc = "remote"
    /\ calls = <<1, 2, 3>>
    /\ 3 \in polled
    /\ results = [succeeded |-> 1, errors |-> 1]


\* The run is past the safety check and has not returned.
InLoop == flow \in Flows /\ pc \in {"remote", "sleep", "batch"}

\* C33: a run that is past its safety check never throws, whatever the outcome of
\* its remote calls and of its isAllowed calls, and it eventually returns its result.
C33_AdmittedRunCompletes ==
    /\ [][InLoop => pc' # "raised"]_vars
    /\ InLoop ~> (pc = "done" /\ outcome.kind = "returned")

\* A sequential run returned after it had waited for admission while the clock
\* advanced and after the remote call of one of its items had been rejected.
C33_Witness ==
    /\ flow \in SequentialFlows
    /\ pc = "done"
    /\ polled # {}
    /\ outcome.value.errors > 0
    /\ now > 0

\* The callbacks of the batch that have started and have not settled.
InFlight == {j \in DOMAIN tasks : tasks[j] \notin {"start", "settled"}}

\* C34: organizeFilesByType works on batches of BatchSize items: a batch starts at
\* item 1, BatchSize + 1, ..., holds at most BatchSize items, so that at most
\* BatchSize items are in flight, and the next batch is set up only when every
\* callback of the batch has settled.
C34_BatchesOfFixedSize ==
    /\ [](flow = "organizeFilesByType" /\ pc = "batch" =>
            /\ idx % BatchSize = 1 % BatchSize
            /\ Len(tasks) <= BatchSize
            /\ Cardinality(InFlight) <= BatchSize
            /\ idx + Len(tasks) - 1 <= Len(files))
    /\ [][flow = "organizeFilesByType" /\ pc = "batch" /\ idx' # idx =>
            /\ \A j \in DOMAIN tasks : tasks[j] = "settled"
            /\ idx' = idx + BatchSize]_vars

\* An item of the second batch is in flight.
C34_Witness ==
    /\ flow = "organizeFilesByType"
    /\ pc = "batch"
    /\ idx = BatchSize + 1
    /\ Cardinality(InFlight) = 1

\* C35: in organizeFilesByType every moveFileToFolder call is made with a folder id
\* that a createFolder call of the same run has already returned for the category of
\* the moved item, never with an undefined id, however the callbacks of a batch
\* interleave.
C35_MoveTargetsCreatedFolder ==
    \A m \in moves : m[2] \in created[TypeOf(files[m[1]])]

\* Two items of one category, each moved to the folder of its own creation call.
C35_Witness ==
    \E m1, m2 \in moves :
        /\ m1[1] # m2[1]
        /\ TypeOf(files[m1[1]]) = TypeOf(files[m2[1]])
        /\ m1[2] # m2[2]

\* The candidates that match one of the categories.
Matching == {i \in DOMAIN files : TypeOf(files[i]) # "none"}

\* C37: in organizeFilesByType an item that matches no category is left untouched.
\* Its callback has no call in flight at any moment, no moveFileToFolder call was
\* made for it, no folder was created by it, it is not counted as refused, and when
\* the run returns moved + errors is the number of candidates that match a category.
C37_UnmatchedItemIsUntouched ==
    flow = "organizeFilesByType" =>
        /\ pc = "batch" =>
              \A j \in DOMAIN tasks :
                  FileOf(j) \notin Matching => tasks[j] \in {"start", "settled"}
        /\ \A m \in moves : m[1] \in Matching
        /\ \A type \in DOMAIN created : created[type] \subseteq Matching
        /\ deniedCounted \subseteq Matching
        /\ pc = "done" => results.succeeded + results.errors = Cardinality(Matching)

\* A run has returned whose listing held an item of no category next to items that
\* were moved or failed.
C37_Witness ==
    /\ flow = "organizeFilesByType" /\ pc = "done"
    /\ Matching # {}
    /\ Matching # DOMAIN files
    /\ results.succeeded > 0

---------------------------------------------------------------------------
(* Properties of the utility functions *)

\* The call of getUserFriendlyError has returned: '{context} failed: ' and a sentence.
Says(sentence) == out = arg.context \o <<"failed:">> \o sentence

\* error.status || error.code
StatusOrCode == IF arg.error.status # "" THEN arg.error.status ELSE arg.error.code

\* C25: whenever the status or the code of the error is one of the eight statuses
\* of the table, getUserFriendlyError returns '{context} failed: ' and the table's
\* sentence for it, whatever the message; a keyword sentence is returned only when
\* neither is in the table.
C25_TableEntryOfStatusOrCode ==
    fn = "getUserFriendlyError" =>
        LET found == {arg.error.status, arg.error.code} \cap DOMAIN statusMessages
        IN  /\ found # {} => \E status \in found : Says(statusMessages[status])
            /\ (\E sentence \in KeywordSentences : Says(sentence)) => found = {}

\* C25, amended: the value looked up is error.status when it is truthy and error.code
\* otherwise; whenever that value is one of the eight statuses of the table the
\* result is '{context} failed: ' and the table's sentence for it, whatever the
\* message, and a keyword sentence is returned only when that value is not in the
\* table.
C25_TableEntryOfStatusElseCode ==
    fn = "getUserFriendlyError" =>
        /\ StatusOrCode \in DOMAIN statusMessages => Says(statusMessages[StatusOrCode])
        /\ (\E sentence \in KeywordSentences : Says(sentence)) =>
               StatusOrCode \notin DOMAIN statusMessages

\* An error with status 404 whose message speaks of the network was translated to
\* the sentence of 404.
C25_Witness ==
    /\ fn = "getUserFriendlyError"
    /\ arg.error.status = "404"
    /\ Includes(arg.error.message, "network")
    /\ Says(statusMessages["404"])

\* Words of the messages that belong to no sentence.
RawWords == {"ya29.secret", "(app.js:10)", "12345", "5000ms", "TypeError:", "Failed"}

\* C26: what getUserFriendlyError returns is the context label, 'failed:' and one
\* of the thirteen sentences, and holds no word of the error's message that is not
\* a word of that sentence.
C26_OnlyFixedSentences ==
    fn = "getUserFriendlyError" =>
        /\ \E sentence \in Sentences : Says(sentence)
        /\ Range(out) \cap RawWords = {}

\* A character sequence occurs in a string.
Occurs(marker, s) ==
    \E i \in 1..(Len(s) - Len(marker) + 1) : SubSeq(s, i, i + Len(marker) - 1) = marker

\* C27: what sanitizeDriveQuery returns is no longer than the length limit.
C27_DriveQueryWithinLimit ==
    fn = "sanitizeDriveQuery" => Len(out) <= QueryMaxLength

\* C28: what sanitizeGmailQuery returns is no longer than the length limit.
C28_GmailQueryWithinLimit ==
    fn = "sanitizeGmailQuery" => Len(out) <= QueryMaxLength

\* A query longer than the limit was cut to exactly the limit.
C28_Witness ==
    /\ fn = "sanitizeGmailQuery"
    /\ Len(arg) > QueryMaxLength
    /\ Len(out) = QueryMaxLength

\* C29: what sanitizeDriveQuery returns holds none of the markers '--', '/*', '*/'.
C29_NoCommentMarkerLeft ==
    fn = "sanitizeDriveQuery" =>
        \A marker \in {<<"-", "-">>, <<"/", "*">>, <<"*", "/">>} : ~Occurs(marker, out)

\* C30: what sanitizeFilename returns is not empty, no longer than the length limit
\* and holds neither '/' nor '\'.
C30_FilenameFits ==
    fn = "sanitizeFilename" =>
        /\ out # <<>>
        /\ Len(out) <= FilenameMaxLength
        /\ Range(out) \cap {"/", "\\"} = {}

\* validateNumericInput was called with these arguments.
Validates(value, min, max, defaultValue) ==
    /\ fn = "validateNumericInput"
    /\ arg = [value |-> value,
              range |-> [min |-> min, max |-> max, defaultValue |-> defaultValue]]

\* C31: validateNumericInput returns the fallback when the value does not parse as an
\* integer, min when the parsed value is below min, max when it is above max and the
\* parsed value otherwise, so the result for a value that parses lies in min..max
\* (for min <= max); 'abc', '0' and '99999' with (1, 3650, 365) give 365, 1 and 3650.
C31_ClampedToRange ==
    /\ fn = "validateNumericInput" =>
           LET parsed == ParseInteger(arg.value)
               range == arg.range
           IN  /\ parsed.isNaN => out = range.defaultValue
               /\ ~parsed.isNaN /\ parsed.num < range.min => out = range.min
               /\ ~parsed.isNaN /\ parsed.num > range.max /\ range.min <= range.max =>
                      out = range.max
               /\ ~parsed.isNaN /\ parsed.num \in range.min..range.max =>
                      out = parsed.num
               /\ ~parsed.isNaN /\ range.min <= range.max => out \in range.min..range.max
    /\ Validates(<<"a", "b", "c">>, 1, 3650, 365) => out = 365
    /\ Validates(<<"0">>, 1, 3650, 365) => out = 1
    /\ Validates(<<"9", "9", "9", "9", "9">>, 1, 3650, 365) => out = 3650

\* '99999' was clamped to 3650.
C31_Witness ==
    Validates(<<"9", "9", "9", "9", "9">>, 1, 3650, 365) /\ out = 3650

---------------------------------------------------------------------------
(* Properties of the bootstrap *)

\* C32: the timer of a run of loadGoogleApi reports a timeout exactly when the run
\* has not settled InitTimeout after its start: a timer that fires after its run has
\* settled reports nothing, and one that fires while its run is still going reports
\* the timeout.
C32_TimeoutOnlyForUnsettledRun ==
    \A i \in DOMAIN attempts :
        attempts[i].timer = "fired" =>
            (attempts[i].reported <=> ~attempts[i].settledWhenFired)

---------------------------------------------------------------------------
(* Properties of the adapter operations *)

\* C36: a single-shot operation whose isAllowed check returns false throws at once:
\* it has called isAllowed once, its error message begins with 'Too many', it has
\* issued no remote call and started no callback, and it takes no further step (no
\* retry); the refused check records no admission.
C36_RefusedOperationRaisesAtOnce ==
    /\ [](\A c \in Callers : ops[c].refused =>
              /\ ops[c].op \in SingleShot
              /\ ops[c].pc = "raised"
              /\ SubSeq(ops[c].message, 1, 2) = <<"Too", "many">>
              /\ ops[c].checks = 1
              /\ ops[c].remote = 0
              /\ ops[c].items = <<>>)
    /\ [][\A c \in Callers :
              /\ ops[c].op = "none" /\ ops'[c].op \in SingleShot
                 /\ ~Admits(OpLimiter(ops'[c].op), OpKey(ops'[c].op))
                 => ops'[c].refused
              /\ ops'[c].refused /\ ~ops[c].refused
                 => requests' = requests /\ itemCalls' = itemCalls
              /\ ops[c].refused => ops'[c] = ops[c]]_vars

\* shareFile was refused, and time has passed since.
C36_Witness ==
    /\ now > 0
    /\ \E c \in Callers : ops[c].refused /\ ops[c].op = "shareFile"

\* The items of the polling loops on key k of limiter l whose remote call has been
\* issued.
Issued(l, k) ==
    {ci \in Callers \X (1..MaxItems) :
        LET c == ci[1]
            i == ci[2]
        IN  /\ i \in DOMAIN ops[c].items
            /\ ops[c].items[i] \in {"remote", "settled"}
            /\ LoopLimiter(ops[c].op) = l
            /\ LoopKey(ops[c].op) = k}

\* s is the end of t.
IsSuffix(s, t) ==
    /\ Len(s) <= Len(t)
    /\ s = SubSeq(t, Len(t) - Len(s) + 1, Len(t))

\* C38: the per-item remote calls of the polling loops (the for loops of the
\* sequential bulk flows, the detail fetches of searchEmails), whichever handlers run
\* them and however their steps interleave.  On each key as many calls have been
\* issued as there are items whose call was issued (one call an item); the
\* timestamps isAllowed has stored for the key are the instants of the latest of
\* these calls (each call goes with one admission of that instant, and no admission
\* goes without a call); and at every instant t at most maxRequests of the calls on
\* one key were issued in the window (t - timeWindow, t].
C38_ItemCallsWithinLimit ==
    \A l \in Limiters : \A k \in CallSiteKeys(l) \cap LoopKeys :
        /\ Len(itemCalls[l][k]) = Cardinality(Issued(l, k))
        /\ IsSuffix(requests[l][k], itemCalls[l][k])
        /\ \A t \in 0..now :
              CountIn(itemCalls[l][k], t, Limiter(l).timeWindow)
                  <= Limiter(l).maxRequests

\* deleteOldFiles and deleteFiles run together, the window of the Drive 'delete' key
\* is full of their calls and one of them waits.
C38_Witness ==
    \E c1, c2 \in Callers :
        /\ ops[c1].op = "deleteOldFiles" /\ ops[c1].remote > 0
        /\ ops[c2].op = "deleteFiles" /\ ops[c2].remote > 0
        /\ \E i \in DOMAIN ops[c2].items : ops[c2].items[i] = "sleep"
        /\ CountIn(itemCalls["drive"]["delete"], now, ShortWindow) = DriveMaxRequests

=============================================================================
